---- MODULE Spec2Model ----
(***************************************************************************)
(* A model of the script-generation pipeline of yt-video-summarizer:       *)
(* BatchProcessor.process_videos, PatternAnalyzer.analyze,                 *)
(* PatternSynthesizer.synthesize and ScriptGenerator.generate.             *)
(*                                                                         *)
(* Conventions.  Python None is the empty sequence and a present optional  *)
(* value x is <<x>>.  A float is an integer number of hundredths where the *)
(* code rounds to two decimals (quality_score), and an exact fraction      *)
(* [num, den] where the code divides (averages).  Texts are TLA+ strings,  *)
(* so slicing and concatenation are the code's.                            *)
(***************************************************************************)
EXTENDS Integers, Sequences, FiniteSets, TLC

VARIABLES
    \* BatchProcessor.process_videos
    bp_videos, bp_pc, bp_i, bp_transcripts, bp_failed_count, bp_audio,
    bp_attempts, bp_cleanup, bp_outcome,
    \* PatternAnalyzer.analyze
    an_transcript, an_pc, an_response, an_llm_calls, an_result, an_raised,
    \* PatternSynthesizer.synthesize
    syn_analyses, syn_topic, syn_pc, syn_agg, syn_llm_calls, syn_llm_outcome,
    syn_report, syn_result, syn_raised,
    \* ScriptGenerator.generate
    gen_input, gen_pc, gen_llm_calls, gen_response, gen_result, gen_raised,
    \* YouTubeVideo.quality_score evaluated over time
    qs_video, qs_year, qs_scores,
    \* YouTubeSearcher.search
    se_input, se_pc, se_calls, se_stdout, se_result, se_raised, se_cause,
    \* ScriptGenerator._estimate_quality_score
    qe_input, qe_score,
    \* cli.py: one run of the script-generation pipeline
    pl_input, pl_pc, pl_trace, pl_videos, pl_transcripts, pl_todo, pl_files, pl_result,
    \* ScriptTranslator.translate_to_spanish
    tr_input, tr_script, tr_pc, tr_calls, tr_content, tr_title, tr_description, tr_tags, tr_result,
    \* one video record from the search to the generated script
    va_video, va_year, va_stage, va_analysis

bp_vars == <<bp_videos, bp_pc, bp_i, bp_transcripts, bp_failed_count, bp_audio,
             bp_attempts, bp_cleanup, bp_outcome>>
an_vars == <<an_transcript, an_pc, an_response, an_llm_calls, an_result, an_raised>>
syn_vars == <<syn_analyses, syn_topic, syn_pc, syn_agg, syn_llm_calls,
              syn_llm_outcome, syn_report, syn_result, syn_raised>>
gen_vars == <<gen_input, gen_pc, gen_llm_calls, gen_response, gen_result, gen_raised>>
qs_vars == <<qs_video, qs_year, qs_scores>>
se_vars == <<se_input, se_pc, se_calls, se_stdout, se_result, se_raised, se_cause>>
qe_vars == <<qe_input, qe_score>>
pl_vars == <<pl_input, pl_pc, pl_trace, pl_videos, pl_transcripts, pl_todo, pl_files, pl_result>>
tr_vars == <<tr_input, tr_script, tr_pc, tr_calls, tr_content, tr_title, tr_description, tr_tags, tr_result>>
va_vars == <<va_video, va_year, va_stage, va_analysis>>
vars == <<bp_vars, an_vars, syn_vars, gen_vars,
         qs_vars, se_vars, qe_vars, pl_vars, tr_vars, va_vars>>

(***************************************************************************)
(* Generic helpers (Python built-ins).                                     *)
(***************************************************************************)
None == <<>>
Some(x) == <<x>>

Min(a, b) == IF a <= b THEN a ELSE b
Max(a, b) == IF a >= b THEN a ELSE b
Abs(a) == IF a >= 0 THEN a ELSE -a

\* seq[:n]
Take(s, n) == SubSeq(s, 1, Min(Len(s), n))

RECURSIVE SeqSum(_)
SeqSum(s) == IF s = <<>> THEN 0 ELSE Head(s) + SeqSum(Tail(s))

\* [f(x) for x in s]
MapSeq(s, f(_)) == [i \in 1..Len(s) |-> f(s[i])]

\* list.sort(key=..., reverse=True) and sorted(..., reverse=True) are stable:
\* elements of equal key keep their order.  Insertion sort over the indices of
\* the key list, each index inserted after the indices whose key is >= its own.
RECURSIVE InsertDesc(_, _, _)
InsertDesc(i, order, keys) ==
    IF order = <<>> THEN <<i>>
    ELSE IF keys[Head(order)] >= keys[i]
         THEN <<Head(order)>> \o InsertDesc(i, Tail(order), keys)
         ELSE <<i>> \o order

RECURSIVE SortedOrderFrom(_, _, _)
SortedOrderFrom(i, order, keys) ==
    IF i > Len(keys) THEN order
    ELSE SortedOrderFrom(i + 1, InsertDesc(i, order, keys), keys)

\* The items in descending order of their keys (keys[i] is the key of items[i]).
SortDesc(items, keys) ==
    LET order == SortedOrderFrom(1, <<>>, keys)
    IN  [j \in 1..Len(items) |-> items[order[j]]]

RECURSIVE Gcd(_, _)
Gcd(a, b) == IF b = 0 THEN a ELSE Gcd(b, a % b)

\* An exact fraction for a float the code gets from a division, in lowest
\* terms (a zero denominator is kept as it is).
Frac(n, d) ==
    LET g == Gcd(Abs(n), Abs(d))
    IN  IF g = 0 THEN [num |-> n, den |-> d] ELSE [num |-> n \div g, den |-> d \div g]
FracEq(a, b) == a.num * b.den = b.num * a.den

(***************************************************************************)
(* int(str) on the strings met here: a non-empty string of decimal digits  *)
(* parses, anything else raises ValueError.                                *)
(***************************************************************************)
Digits == <<"0", "1", "2", "3", "4", "5", "6", "7", "8", "9">>
IsDigit(c) == \E d \in 1..10 : Digits[d] = c
DigitVal(c) == (CHOOSE d \in 1..10 : Digits[d] = c) - 1
CharAt(s, i) == SubSeq(s, i, i)

IsDigitString(s) == Len(s) > 0 /\ \A i \in 1..Len(s) : IsDigit(CharAt(s, i))

RECURSIVE DigitsToInt(_, _)
DigitsToInt(s, acc) ==
    IF Len(s) = 0 THEN acc
    ELSE DigitsToInt(SubSeq(s, 2, Len(s)), acc * 10 + DigitVal(CharAt(s, 1)))

\* str.split(":") as the sequence of its parts.
RECURSIVE SplitColonFrom(_, _, _)
SplitColonFrom(s, cur, acc) ==
    IF Len(s) = 0 THEN Append(acc, cur)
    ELSE IF CharAt(s, 1) = ":"
         THEN SplitColonFrom(SubSeq(s, 2, Len(s)), "", Append(acc, cur))
         ELSE SplitColonFrom(SubSeq(s, 2, Len(s)), cur \o CharAt(s, 1), acc)

SplitColon(s) == SplitColonFrom(s, "", <<>>)
HasColon(s) == \E i \in 1..Len(s) : CharAt(s, i) = ":"

(***************************************************************************)
(* models.py: YouTubeVideo and its quality_score.                          *)
(***************************************************************************)
\* datetime.now().year at the time of the evaluation.
CurrentYear == 2026

YouTubeVideo(id, title, secs, views, date, likes, pref) ==
    [video_id |-> id, title |-> title, duration_seconds |-> secs,
     view_count |-> views, upload_date |-> date, like_count |-> likes,
     duration_preference |-> pref]

\* duration_score * 100: the three-tier step on |duration_minutes - target|,
\* with the minutes kept exact as seconds.
duration_score(v) ==
    LET target_duration == IF v.duration_preference = None
                              \/ v.duration_preference[1] = 0
                           THEN 15 ELSE v.duration_preference[1]
        diff_seconds == Abs(v.duration_seconds - 60 * target_duration)
    IN  IF diff_seconds <= 3 * 60 THEN 100
        ELSE IF diff_seconds <= 6 * 60 THEN 70
        ELSE 40

\* int(s) succeeds: an optional sign before decimal digits.  (int also
\* accepts surrounding blanks and underscores between digits; no input of
\* the model has them.)
IsIntLiteral(s) ==
    IF Len(s) > 0 /\ CharAt(s, 1) \in {"+", "-"}
    THEN IsDigitString(SubSeq(s, 2, Len(s)))
    ELSE IsDigitString(s)

\* int(s) for such a text.
IntOf(s) ==
    IF CharAt(s, 1) = "-" THEN 0 - DigitsToInt(SubSeq(s, 2, Len(s)), 0)
    ELSE IF CharAt(s, 1) = "+" THEN DigitsToInt(SubSeq(s, 2, Len(s)), 0)
    ELSE DigitsToInt(s, 0)

\* recency_score * 100: int(upload_date[:4]) raising ValueError gives 0.5.
\* years_old is negative for an upload year after the current one.
recency_score(v, year) ==
    LET year_str == Take(v.upload_date, 4)
    IN  IF IsIntLiteral(year_str)
        THEN Max(100 - (year - IntOf(year_str)) * 20, 30)
        ELSE 50

\* completeness_score * 100
completeness_score(v) == IF v.like_count # None THEN 100 ELSE 80

\* round(score * 5, 2) in hundredths: the weights 0.4, 0.2, 0.2, 0.2 times 5
\* are 2, 1, 1, 1; min(view_count / 100_000, 1.0) * 2 in hundredths is
\* min(view_count, 100_000) / 500, rounded to the nearest hundredth.
quality_score_at(v, year) ==
    (Min(v.view_count, 100000) + 250) \div 500
    + duration_score(v) + recency_score(v, year) + completeness_score(v)

quality_score(v) == quality_score_at(v, CurrentYear)

(***************************************************************************)
(* models.py: VideoAnalysis.  __post_init__ copies video.quality_score     *)
(* into effectiveness_score.                                               *)
(***************************************************************************)
VideoAnalysis(video, hook_start, hook_end, hook_text, hook_type, hook_effectiveness, intro_end, sections, conclusion_start, ctas, technical_terms, common_phrases, transition_phrases, techniques, title_keywords, estimated_tags, raw_analysis) ==
    [video |-> video, hook_start |-> hook_start, hook_end |-> hook_end,
     hook_text |-> hook_text, hook_type |-> hook_type,
     hook_effectiveness |-> hook_effectiveness, intro_end |-> intro_end,
     sections |-> sections, conclusion_start |-> conclusion_start,
     ctas |-> ctas, technical_terms |-> technical_terms,
     common_phrases |-> common_phrases,
     transition_phrases |-> transition_phrases, techniques |-> techniques,
     title_keywords |-> title_keywords, estimated_tags |-> estimated_tags,
     effectiveness_score |-> quality_score(video),
     raw_analysis |-> raw_analysis]

\* dict.get(key, default) for a dict modelled as a function on its keys.
Get(d, k, default) == IF k \in DOMAIN d THEN d[k] ELSE default

(***************************************************************************)
(* synthesizer.py: PatternSynthesizer, the aggregations.                   *)
(***************************************************************************)
HookTextMax == 200
TopHooksN == 10
TopCtasN == 15

\* _extract_top_hooks: one descriptor per analysis with a non-empty hook text,
\* sorted by weighted_score descending (stable), cut to top_n.
HookDescriptor(a) ==
    [text |-> Take(a.hook_text, HookTextMax), type |-> a.hook_type,
     effectiveness |-> a.hook_effectiveness,
     weighted_score |-> a.effectiveness_score,
     duration_seconds |-> a.hook_end - a.hook_start,
     video_title |-> a.video.title]

HasHook(a) == a.hook_text # ""

\* The descriptors in input order, without the sort.
unsorted_top_hooks(analyses, top_n) ==
    LET with_hook == SelectSeq(analyses, HasHook)
    IN  Take([i \in 1..Len(with_hook) |-> HookDescriptor(with_hook[i])], top_n)

extract_top_hooks(analyses, top_n) ==
    LET with_hook == SelectSeq(analyses, HasHook)
        weighted_hooks == [i \in 1..Len(with_hook) |-> HookDescriptor(with_hook[i])]
        keys == [i \in 1..Len(weighted_hooks) |-> weighted_hooks[i].weighted_score]
    IN  Take(SortDesc(weighted_hooks, keys), top_n)

\* weighted_avg(values, weights) of _calculate_optimal_structure:
\* sum(v * w for v, w in zip(values, weights, strict=True)) / sum(weights).
weighted_avg(values, weights) ==
    IF values = <<>> THEN Frac(0, 1)
    ELSE Frac(SeqSum([i \in 1..Len(values) |-> values[i] * weights[i]]),
              SeqSum(weights))

\* A filter that keeps every analysis.
KeepsEveryAnalysis(a) == TRUE

HookEndPositive(a) == a.hook_end > 0
IntroEndPositive(a) == a.intro_end > 0
HasSections(a) == a.sections # <<>>
ConclusionStartPositive(a) == a.conclusion_start > 0

\* max(set(num_sections), key=num_sections.count): the length that occurs
\* most often; among lengths that occur equally often max() keeps the first
\* in the set's iteration order, which for small ints is ascending.
ModeOf(nums) ==
    LET Count(v) == Cardinality({i \in 1..Len(nums) : nums[i] = v})
        vals == {nums[i] : i \in 1..Len(nums)}
    IN  CHOOSE v \in vals :
            \A u \in vals : Count(u) < Count(v) \/ (Count(u) = Count(v) /\ v <= u)

\* _calculate_optimal_structure: each list keeps the analyses passing its own
\* filter; the weights of all analyses are then sliced to the list's length.
calculate_optimal_structure(analyses) ==
    LET hs == SelectSeq(analyses, HookEndPositive)
        is == SelectSeq(analyses, IntroEndPositive)
        ss == SelectSeq(analyses, HasSections)
        cs == SelectSeq(analyses, ConclusionStartPositive)
        hook_durations == [i \in 1..Len(hs) |-> hs[i].hook_end - hs[i].hook_start]
        intro_ends == [i \in 1..Len(is) |-> is[i].intro_end]
        num_sections == [i \in 1..Len(ss) |-> Len(ss[i].sections)]
        conclusion_starts == [i \in 1..Len(cs) |-> cs[i].conclusion_start]
        weights == [i \in 1..Len(analyses) |-> analyses[i].effectiveness_score]
    IN  [hook_duration_avg |->
            IF hook_durations # <<>>
            THEN weighted_avg(hook_durations, Take(weights, Len(hook_durations)))
            ELSE Frac(15, 1),
         intro_end_avg |->
            IF intro_ends # <<>>
            THEN weighted_avg(intro_ends, Take(weights, Len(intro_ends)))
            ELSE Frac(60, 1),
         num_sections_mode |->
            IF num_sections # <<>> THEN ModeOf(num_sections) ELSE 3,
         conclusion_start_avg |->
            IF conclusion_starts # <<>>
            THEN weighted_avg(conclusion_starts, Take(weights, Len(conclusion_starts)))
            ELSE Frac(0, 1),
         total_videos |-> Len(analyses)]

\* sum() of a list of fractions.
RECURSIVE FracSum(_)
FracSum(s) ==
    IF s = <<>> THEN Frac(0, 1)
    ELSE LET r == FracSum(Tail(s))
         IN  Frac(Head(s).num * r.den + r.num * Head(s).den, Head(s).den * r.den)

\* The (analysis, cta) pairs in the order the two nested loops of
\* _extract_effective_ctas visit them.
RECURSIVE CtaOccurrences(_)
CtaOccurrences(analyses) ==
    IF analyses = <<>> THEN <<>>
    ELSE [i \in 1..Len(Head(analyses).ctas) |->
             [cta |-> Head(analyses).ctas[i],
              duration_seconds |-> Head(analyses).video.duration_seconds]]
         \o CtaOccurrences(Tail(analyses))

\* f"{cta_type}:{cta_text}"
CtaKey(cta_type, cta_text) == cta_type \o ":" \o cta_text

\* The timestamp of a CTA in seconds, as lines 219-223 leave it: an int is
\* kept; a str holding ":" becomes int(parts[0]) * 60 + int(parts[1]), which
\* raises ValueError when a part is not a number; any other str is kept.
\* A timestamp is [int |-> n] or [str |-> s].
CtaSeconds(timestamp) ==
    IF "str" \in DOMAIN timestamp /\ HasColon(timestamp.str)
    THEN LET parts == SplitColon(timestamp.str)
         IN  IF IsDigitString(parts[1]) /\ IsDigitString(parts[2])
             THEN [raised |-> "none",
                   value |-> [int |-> DigitsToInt(parts[1], 0) * 60
                                      + DigitsToInt(parts[2], 0)]]
             ELSE [raised |-> "ValueError", value |-> timestamp]
    ELSE [raised |-> "none", value |-> timestamp]

\* One pass of the inner loop body (lines 204-227) over the running state:
\* entries in first-seen order, each [key, text, type, positions, count].
CtaStep(acc, occ) ==
    LET cta_text == Get(occ.cta, "text", "")
        cta_type == Get(occ.cta, "type", "unknown")
        key == CtaKey(cta_type, cta_text)
        known == \E i \in 1..Len(acc.entries) : acc.entries[i].key = key
        entries0 == IF known THEN acc.entries
                    ELSE Append(acc.entries,
                                [key |-> key, text |-> cta_text, type |-> cta_type,
                                 positions |-> <<>>, count |-> 0])
        idx == CHOOSE i \in 1..Len(entries0) : entries0[i].key = key
        counted == [entries0 EXCEPT ![idx].count = @ + 1]
        secs == CtaSeconds(Get(occ.cta, "timestamp", [int |-> 0]))
    IN  IF secs.raised # "none"
        THEN [entries |-> counted, raised |-> secs.raised]
        ELSE IF occ.duration_seconds > 0
        THEN IF "str" \in DOMAIN secs.value
             THEN [entries |-> counted, raised |-> "TypeError"]
             ELSE [entries |->
                      [counted EXCEPT ![idx].positions =
                          Append(@, Frac(secs.value.int * 100, occ.duration_seconds))],
                   raised |-> "none"]
        ELSE [entries |-> counted, raised |-> "none"]

RECURSIVE CtaLoop(_, _)
CtaLoop(acc, occs) ==
    IF occs = <<>> \/ acc.raised # "none" THEN acc
    ELSE CtaLoop(CtaStep(acc, Head(occs)), Tail(occs))

CtaDescriptor(e) ==
    [text |-> e.text, type |-> e.type, frequency |-> e.count,
     avg_position_percent |->
        IF e.positions # <<>>
        THEN LET sum == FracSum(e.positions)
             IN  Frac(sum.num, sum.den * Len(e.positions))
        ELSE Frac(0, 1)]

\* _extract_effective_ctas: [raised, value]; value is the list returned when
\* nothing was raised.  Counter.most_common(top_n) sorts by count descending,
\* keys of equal count in first-seen order.
extract_effective_ctas(analyses, top_n) ==
    LET final == CtaLoop([entries |-> <<>>, raised |-> "none"], CtaOccurrences(analyses))
        counts == [i \in 1..Len(final.entries) |-> final.entries[i].count]
        common == Take(SortDesc(final.entries, counts), top_n)
    IN  IF final.raised # "none" THEN [raised |-> final.raised, value |-> <<>>]
        ELSE [raised |-> "none",
              value |-> [i \in 1..Len(common) |-> CtaDescriptor(common[i])]]

\* A collections.Counter fed counter[item] += weight for each [item, weight]
\* in order: its entries [item, count] in first-seen order.
RECURSIVE CounterFrom(_, _)
CounterFrom(entries, occs) ==
    IF occs = <<>> THEN entries
    ELSE LET o == Head(occs)
             known == \E i \in 1..Len(entries) : entries[i].item = o.item
             entries0 == IF known THEN entries
                         ELSE Append(entries, [item |-> o.item, count |-> 0])
             idx == CHOOSE i \in 1..Len(entries0) : entries0[i].item = o.item
         IN  CounterFrom([entries0 EXCEPT ![idx].count = @ + o.weight], Tail(occs))

\* Counter.most_common(n)
most_common(entries, n) ==
    Take(SortDesc(entries, [i \in 1..Len(entries) |-> entries[i].count]), n)

\* A weight that counts every occurrence as one.
UnitWeight(a) == 1

\* int(analysis.effectiveness_score): truncation of a positive float.
IntWeight(a) == a.effectiveness_score \div 100

\* The [item, weight] occurrences of one list field over all analyses.
RECURSIVE WeightedOccurrences(_, _)
WeightedOccurrences(analyses, field) ==
    IF analyses = <<>> THEN <<>>
    ELSE LET a == Head(analyses)
         IN  [i \in 1..Len(a[field]) |-> [item |-> a[field][i], weight |-> IntWeight(a)]]
             \o WeightedOccurrences(Tail(analyses), field)

\* [{label: item, "frequency": count} for item, count in counter.most_common(n)]
FrequencyTable(analyses, field, label, n) ==
    LET top == most_common(CounterFrom(<<>>, WeightedOccurrences(analyses, field)), n)
    IN  [i \in 1..Len(top) |->
            [k \in {label, "frequency"} |->
                IF k = label THEN top[i].item ELSE top[i].count]]

\* _aggregate_vocabulary
aggregate_vocabulary(analyses) ==
    [technical_terms |-> FrequencyTable(analyses, "technical_terms", "term", 20),
     common_phrases |-> FrequencyTable(analyses, "common_phrases", "phrase", 15),
     transition_phrases |-> FrequencyTable(analyses, "transition_phrases", "phrase", 10)]

\* _aggregate_seo_patterns
aggregate_seo_patterns(analyses) ==
    [title_keywords |-> FrequencyTable(analyses, "title_keywords", "keyword", 15),
     estimated_tags |-> FrequencyTable(analyses, "estimated_tags", "tag", 20)]

\* The techniques of every analysis, whatever its score.
RECURSIVE AllTechniqueOccurrences(_)
AllTechniqueOccurrences(analyses) ==
    IF analyses = <<>> THEN <<>>
    ELSE SelectSeq(Head(analyses).techniques, LAMBDA t : Get(t, "name", "") # "")
         \o AllTechniqueOccurrences(Tail(analyses))

\* _extract_notable_techniques: techniques of the analyses scoring >= 3.5,
\* unnamed ones skipped, counted by name, first description kept.
HighQualityScore == 350

RECURSIVE TechniqueOccurrences(_)
TechniqueOccurrences(analyses) ==
    IF analyses = <<>> THEN <<>>
    ELSE LET a == Head(analyses)
             named == SelectSeq(a.techniques, LAMBDA t : Get(t, "name", "") # "")
         IN  (IF a.effectiveness_score < HighQualityScore THEN <<>> ELSE named)
             \o TechniqueOccurrences(Tail(analyses))

extract_notable_techniques(analyses, top_n) ==
    LET occs == TechniqueOccurrences(analyses)
        counted == CounterFrom(<<>>, [i \in 1..Len(occs) |->
                                        [item |-> occs[i].name, weight |-> 1]])
        top == most_common(counted, top_n)
        FirstOf(name) == occs[CHOOSE i \in 1..Len(occs) :
                                 /\ occs[i].name = name
                                 /\ \A j \in 1..(i - 1) : occs[j].name # name]
    IN  [i \in 1..Len(top) |->
            [name |-> top[i].item,
             description |-> Get(FirstOf(top[i].item), "description", ""),
             frequency |-> top[i].count]]

\* A mean over the analyses that have a hook only.
hooked_effectiveness(analyses) ==
    LET hooked == SelectSeq(analyses, HasHook)
    IN  Frac(SeqSum([i \in 1..Len(hooked) |-> hooked[i].effectiveness_score]),
             Max(1, Len(hooked)))

\* sum(a.effectiveness_score for a in analyses) / len(analyses), in hundredths.
average_effectiveness(analyses) ==
    Frac(SeqSum([i \in 1..Len(analyses) |-> analyses[i].effectiveness_score]),
         Len(analyses))

(***************************************************************************)
(* Number and text formatting used by the fallback report.                 *)
(***************************************************************************)
\* format(x, ".0f") of a non-negative fraction: nearest integer, ties to even.
RoundHalfEven(f) ==
    LET q == f.num \div f.den
        r == f.num % f.den
    IN  IF 2 * r < f.den THEN q
        ELSE IF 2 * r > f.den THEN q + 1
        ELSE IF q % 2 = 0 THEN q ELSE q + 1

LowerCase == "abcdefghijklmnopqrstuvwxyz"
UpperCase == "ABCDEFGHIJKLMNOPQRSTUVWXYZ"
IsLower(c) == \E i \in 1..26 : CharAt(LowerCase, i) = c
IsUpper(c) == \E i \in 1..26 : CharAt(UpperCase, i) = c
ToUpper(c) == IF IsLower(c) THEN CharAt(UpperCase, CHOOSE i \in 1..26 : CharAt(LowerCase, i) = c) ELSE c
ToLower(c) == IF IsUpper(c) THEN CharAt(LowerCase, CHOOSE i \in 1..26 : CharAt(UpperCase, i) = c) ELSE c

\* str.title(): the first letter of each run of letters in upper case, the
\* others in lower case.
RECURSIVE TitleFrom(_, _, _)
TitleFrom(s, in_word, acc) ==
    IF Len(s) = 0 THEN acc
    ELSE LET c == CharAt(s, 1)
             letter == IsLower(c) \/ IsUpper(c)
         IN  TitleFrom(SubSeq(s, 2, Len(s)), letter,
                       acc \o (IF in_word THEN ToLower(c) ELSE ToUpper(c)))

Title(s) == TitleFrom(s, FALSE, "")

(***************************************************************************)
(* synthesizer.py: the report and the record.                              *)
(***************************************************************************)
\* _create_fallback_report: the values the template interpolates.
create_fallback_report(topic, num_videos, top_hooks, optimal_structure, effective_ctas, avg_effectiveness) ==
    LET hooks == Take(top_hooks, 5)
        ctas == Take(effective_ctas, 5)
    IN  [kind |-> "fallback", topic |-> topic, num_videos |-> num_videos,
         \* {avg_effectiveness:.1f}: tenths of a score kept in hundredths
         avg_effectiveness_tenths |->
             RoundHalfEven(Frac(avg_effectiveness.num, avg_effectiveness.den * 10)),
         hooks |-> [i \in 1..Len(hooks) |->
                      [type |-> Title(hooks[i].type), text |-> Take(hooks[i].text, 100)]],
         hook_duration |-> RoundHalfEven(optimal_structure.hook_duration_avg),
         intro_end |-> RoundHalfEven(optimal_structure.intro_end_avg),
         sections |-> optimal_structure.num_sections_mode,
         ctas |-> [i \in 1..Len(ctas) |->
                     [type |-> Title(ctas[i].type), frequency |-> ctas[i].frequency,
                      text |-> ctas[i].text]]]

\* The text Gemini returned for the report prompt (response.text.strip()).
LlmReport == [kind |-> "llm"]

PatternSynthesis(topic, analyses, agg, markdown_report) ==
    [topic |-> topic, num_videos_analyzed |-> Len(analyses),
     top_hooks |-> agg.top_hooks, optimal_structure |-> agg.optimal_structure,
     effective_ctas |-> agg.effective_ctas, key_vocabulary |-> agg.key_vocabulary,
     notable_techniques |-> agg.notable_techniques,
     seo_patterns |-> agg.seo_patterns,
     average_effectiveness |-> agg.avg_effectiveness,
     markdown_report |-> markdown_report]

\* Lines 64-72 of synthesize: the six aggregations and the average.
Aggregates(analyses) ==
    [top_hooks |-> extract_top_hooks(analyses, TopHooksN),
     optimal_structure |-> calculate_optimal_structure(analyses),
     effective_ctas |-> extract_effective_ctas(analyses, TopCtasN).value,
     key_vocabulary |-> aggregate_vocabulary(analyses),
     notable_techniques |-> extract_notable_techniques(analyses, 10),
     seo_patterns |-> aggregate_seo_patterns(analyses),
     avg_effectiveness |-> average_effectiveness(analyses)]

(***************************************************************************)
(* Inputs of synthesize: bounded families of analyses.                     *)
(***************************************************************************)
MaxAnalyses == 3

\* The three videos of test_pattern_synthesis (10000, 50000, 100000 views,
\* 900 s, uploaded 2024, no like count), a fourth with the score of the
\* second, and a short one whose conclusion_start (duration - 60) is negative.
TestVideo(i, views) ==
    YouTubeVideo("vid" \o Digits[i + 1], "Python Tutorial " \o Digits[i + 1], 900,
                 views, "20240101", None, None)
Video0 == TestVideo(0, 10000)
Video1 == TestVideo(1, 50000)
Video2 == TestVideo(2, 100000)
Video3 == TestVideo(3, 50000)
ShortVideo == YouTubeVideo("vid4", "Short 4", 30, 100000, "20250101", Some(10), None)

LikeCta == [type |-> "like", timestamp |-> [str |-> "1:00"], text |-> "Like this video"]
SubscribeCta == [type |-> "subscribe", timestamp |-> [str |-> "5:00"], text |-> "Subscribe now"]
IntCta == [type |-> "like", timestamp |-> [int |-> 90], text |-> "Like this video"]
BareCta == [text |-> "Join"]
PlainSecondsCta == [type |-> "link", timestamp |-> [str |-> "90"], text |-> "See the link"]
WordsCta == [type |-> "comment", timestamp |-> [str |-> "min 5:30"], text |-> "Comment below"]
ColonTypeCta == [type |-> "a:b", timestamp |-> [int |-> 10], text |-> "c"]
ColonTextCta == [type |-> "a", timestamp |-> [int |-> 20], text |-> "b:c"]

\* A list of words.  The items of the word lists of an analysis are whatever
\* the JSON of the response held, so each is kept with its Python type:
\* [str |-> "word"] for a string, [int |-> n] for a number.
Words(strs) == [i \in 1..Len(strs) |-> [str |-> strs[i]]]

\* The analysis the test builds, with the fields under study as parameters.
TestAnalysis(video, hook_end, hook_text, conclusion_start, ctas) ==
    VideoAnalysis(video, 0, hook_end, hook_text, "question", "high", 60,
                  <<[title |-> "Intro", start |-> "0:00", end |-> "1:00"]>>,
                  conclusion_start, ctas,
                  Words(<<"Python", "functions">>), Words(<<"for example">>),
                  Words(<<"moving on">>),
                  <<[name |-> "examples", description |-> "Uses examples"]>>,
                  Words(<<"Python", "Tutorial">>), Words(<<"Python", "Programming">>),
                  "{}")

\* pattern_analyzer.py: the analysis both failure paths substitute (raw is
\* "" when analyze catches, the response text when the parser catches).
DefaultAnalysis(video, raw) ==
    VideoAnalysis(video, 0, 30, "", "unknown", "unknown", 30, <<>>,
                  video.duration_seconds - 60, <<>>, <<>>, <<>>, <<>>, <<>>, <<>>,
                  <<>>, raw)

\* What _parse_analysis_response builds from a response without sections:
\* hook_end = 30 = intro_end, conclusion_start = duration - 60.
ParsedAnalysis(video, hook_end, hook_text) ==
    VideoAnalysis(video, 0, hook_end, hook_text, "unknown", "unknown", hook_end,
                  <<>>, video.duration_seconds - 60, <<>>, <<>>, <<>>, <<>>, <<>>,
                  <<>>, <<>>, "{}")

LongHookText ==
    "0123456789012345678901234567890123456789012345678901234567890123456789012345678901234567890123456789"
    \o "0123456789012345678901234567890123456789012345678901234567890123456789012345678901234567890123456789"
    \o "tail"

HookFamily ==
    {TestAnalysis(v, 15, "Hook example", 540, <<LikeCta, SubscribeCta>>) :
        v \in {Video0, Video1, Video2, Video3}}
    \cup {TestAnalysis(Video1, 15, "", 540, <<LikeCta, SubscribeCta>>),
          TestAnalysis(Video1, 15, LongHookText, 540, <<>>),
          DefaultAnalysis(Video2, "")}

StructureFamily ==
    {ParsedAnalysis(v, e, "") : v \in {Video0, Video2, ShortVideo}, e \in {0, 30}}
    \cup {ParsedAnalysis(ShortVideo, 45, "")}

CtaFamily ==
    {TestAnalysis(Video1, 15, "", 540, c) :
        c \in {<<>>, <<LikeCta>>, <<LikeCta, SubscribeCta>>, <<SubscribeCta, IntCta>>,
                <<BareCta>>, <<PlainSecondsCta>>, <<WordsCta>>,
                <<ColonTypeCta>>, <<ColonTextCta>>}}

\* An analysis with the given vocabulary, techniques and SEO lists.
VocabularyAnalysis(video, terms, phrases, transitions, techniques, keywords, tags) ==
    VideoAnalysis(video, 0, 15, "Hook example", "question", "high", 60,
                  <<[title |-> "Intro", start |-> "0:00", end |-> "1:00"]>>,
                  540, <<>>, Words(terms), Words(phrases), Words(transitions),
                  techniques, Words(keywords), Words(tags), "{}")

\* n items numbered from 01.
Numbered(prefix, n) ==
    [i \in 1..n |-> prefix \o Digits[(i \div 10) + 1] \o Digits[(i % 10) + 1]]

\* One more item than each table keeps.
WideAnalysis ==
    VocabularyAnalysis(Video1, Numbered("term", 21), Numbered("phrase", 16),
                       Numbered("transition", 11),
                       <<>>, Numbered("keyword", 16), Numbered("tag", 21))

\* One more technique than the table keeps, from an eligible video.
ManyTechniquesAnalysis ==
    VocabularyAnalysis(Video2, <<"api">>, <<>>, <<"transition11">>,
                       [i \in 1..11 |-> [name |-> Numbered("technique", 11)[i],
                                         description |-> "Numbered"]],
                       <<"keyword16">>, <<"tag21", "tag21">>)

VocabularyFamily ==
    {VocabularyAnalysis(Video0, <<"api", "api", "docker">>, <<"for example">>, <<"next">>,
                        <<[name |-> "demo", description |-> "Low demo"],
                          [name |-> "", description |-> "Unnamed"]>>,
                        <<"python">>, <<"python", "code">>),
     VocabularyAnalysis(Video2, <<"docker", "term21">>, <<"for example", "you know", "phrase16">>, <<>>,
                        <<[name |-> "demo", description |-> "Live demo"],
                          [name |-> "story", description |-> "Tells a story"],
                          [description |-> "Nameless"]>>,
                        <<"code", "python">>, <<"code">>),
     VocabularyAnalysis(Video1, <<"api">>, <<"you know">>, <<"next", "so">>,
                        <<[name |-> "story", description |-> "Other story"],
                          [name |-> "recap"]>>,
                        <<"tutorial">>, <<"tutorial">>),
     VocabularyAnalysis(ShortVideo, <<"api", "docker">>, <<>>, <<"so">>,
                        <<[name |-> "story", description |-> "Short story"],
                          [name |-> "story", description |-> "Again"],
                          [name |-> "recap"]>>,
                        <<"tutorial", "tutorial">>, <<"python">>),
     DefaultAnalysis(Video2, "")}

\* Inputs with more items than the tables keep.
WideInputs ==
    {<<WideAnalysis>>, <<ManyTechniquesAnalysis>>,
     <<WideAnalysis, ManyTechniquesAnalysis>>,
     <<ManyTechniquesAnalysis, WideAnalysis>>,
     <<DefaultAnalysis(Video2, ""), ManyTechniquesAnalysis, WideAnalysis>>}

Families == {HookFamily, StructureFamily, CtaFamily, VocabularyFamily}

SeqsUpTo(S, n) == UNION {[1..k -> S] : k \in 0..n}

\* Eleven analyses with a hook, more than top_n = 10: all on Video1 (equal
\* scores) except the one at position low, on the lower scoring Video0
\* (low = 0: none).
LongHookList(low) ==
    [i \in 1..(TopHooksN + 1) |->
        TestAnalysis(IF i = low THEN Video0 ELSE Video1, 15,
                     "Hook " \o Digits[(i % 10) + 1] \o Digits[(i \div 10) + 1],
                     540, <<>>)]

SynthesisInputs ==
    UNION {SeqsUpTo(F, MaxAnalyses) : F \in Families}
    \cup {LongHookList(low) : low \in {0, 1, 6, 11}}
    \cup WideInputs

Topics == {"Python Tutorials"}

(***************************************************************************)
(* A component that is not running: its variables at rest.                 *)
(***************************************************************************)
BpIdle ==
    /\ bp_videos = <<>> /\ bp_pc = "idle" /\ bp_i = 0 /\ bp_transcripts = <<>>
    /\ bp_failed_count = 0 /\ bp_audio = {} /\ bp_attempts = <<>>
    /\ bp_cleanup = "none" /\ bp_outcome = "none"

AnIdle ==
    /\ an_transcript = None /\ an_pc = "idle" /\ an_response = None
    /\ an_llm_calls = 0 /\ an_result = None /\ an_raised = "none"

SynIdle ==
    /\ syn_analyses = <<>> /\ syn_topic = "" /\ syn_pc = "idle" /\ syn_agg = None
    /\ syn_llm_calls = 0 /\ syn_llm_outcome = "none" /\ syn_report = None
    /\ syn_result = None /\ syn_raised = "none"

GenIdle ==
    /\ gen_input = None /\ gen_pc = "idle" /\ gen_llm_calls = 0
    /\ gen_response = None
    /\ gen_result = None /\ gen_raised = "none"

QsIdle ==
    /\ qs_video = None
    /\ qs_year = CurrentYear
    /\ qs_scores = <<>>

VaIdle ==
    /\ va_video = None
    /\ va_year = CurrentYear
    /\ va_stage = "idle"
    /\ va_analysis = None

TrIdle ==
    /\ tr_input = None
    /\ tr_script = None
    /\ tr_pc = "idle"
    /\ tr_calls = <<>>
    /\ tr_content = None
    /\ tr_title = None
    /\ tr_description = None
    /\ tr_tags = None
    /\ tr_result = None

PlIdle ==
    /\ pl_input = None
    /\ pl_pc = "idle"
    /\ pl_trace = <<>>
    /\ pl_videos = 0
    /\ pl_transcripts = 0
    /\ pl_todo = 0
    /\ pl_files = <<>>
    /\ pl_result = None

QeIdle == qe_input = None /\ qe_score = None

SeIdle ==
    /\ se_input = None
    /\ se_pc = "idle"
    /\ se_calls = 0
    /\ se_stdout = None
    /\ se_result = None
    /\ se_raised = "none"
    /\ se_cause = "none"

(***************************************************************************)
(* PatternSynthesizer.synthesize as a state machine.                       *)
(***************************************************************************)
\* synthesize touches no other component.
SynFrame == UNCHANGED <<bp_vars, an_vars, gen_vars, qs_vars, se_vars, qe_vars, pl_vars, tr_vars, va_vars>>

SynInit ==
    /\ syn_analyses \in SynthesisInputs
    /\ syn_topic \in Topics
    /\ syn_pc = "start"
    /\ syn_agg = None
    /\ syn_llm_calls = 0
    /\ syn_llm_outcome = "none"
    /\ syn_report = None
    /\ syn_result = None
    /\ syn_raised = "none"

\* if not analyses
IsEmptyInput(analyses) == analyses = <<>>

\* An emptiness check placed after the report call.
SynthesizeEmptyLate ==
    /\ SynFrame
    /\ syn_pc = "start"
    /\ IsEmptyInput(syn_analyses)
    /\ syn_llm_calls' = syn_llm_calls + 1
    /\ syn_raised' = "ValueError"
    /\ syn_pc' = "raised"
    /\ UNCHANGED <<syn_analyses, syn_topic, syn_agg, syn_llm_outcome,
                   syn_report, syn_result>>

\* Lines 58-59: raise ValueError on an empty list.
SynthesizeEmpty ==
    /\ SynFrame
    /\ syn_pc = "start"
    /\ IsEmptyInput(syn_analyses)
    /\ syn_raised' = "ValueError"
    /\ syn_pc' = "raised"
    /\ UNCHANGED <<syn_analyses, syn_topic, syn_agg, syn_llm_calls, syn_llm_outcome,
                   syn_report, syn_result>>

\* Lines 63-72: the aggregations, in which _extract_effective_ctas may raise.
SynthesizeAggregate ==
    /\ SynFrame
    /\ syn_pc = "start"
    /\ ~IsEmptyInput(syn_analyses)
    /\ LET ctas == extract_effective_ctas(syn_analyses, TopCtasN)
       IN  IF ctas.raised # "none"
           THEN /\ syn_raised' = ctas.raised
                /\ syn_pc' = "raised"
                /\ UNCHANGED syn_agg
           ELSE /\ syn_agg' = Some(Aggregates(syn_analyses))
                /\ syn_pc' = "report"
                /\ UNCHANGED syn_raised
    /\ UNCHANGED <<syn_analyses, syn_topic, syn_llm_calls, syn_llm_outcome,
                   syn_report, syn_result>>

\* Lines 482-486: the Gemini call returns and its text is the report.
GenerateReportLlm ==
    /\ SynFrame
    /\ syn_pc = "report"
    /\ syn_llm_calls' = syn_llm_calls + 1
    /\ syn_llm_outcome' = "ok"
    /\ syn_report' = Some(LlmReport)
    /\ syn_pc' = "return"
    /\ UNCHANGED <<syn_analyses, syn_topic, syn_agg, syn_result, syn_raised>>

\* A report step without the except clause: the exception leaves synthesize.
GenerateReportRaises ==
    /\ SynFrame
    /\ syn_pc = "report"
    /\ syn_llm_calls' = syn_llm_calls + 1
    /\ syn_llm_outcome' = "raised"
    /\ syn_raised' = "Exception"
    /\ syn_pc' = "raised"
    /\ UNCHANGED <<syn_analyses, syn_topic, syn_agg, syn_report, syn_result>>

\* Lines 488-493: the Gemini call (or reading its text) raises; the fallback
\* report is built from the aggregates.
GenerateReportFallback ==
    /\ SynFrame
    /\ syn_pc = "report"
    /\ syn_llm_calls' = syn_llm_calls + 1
    /\ syn_llm_outcome' = "raised"
    /\ LET agg == syn_agg[1]
       IN  syn_report' = Some(create_fallback_report(syn_topic, Len(syn_analyses),
                                  agg.top_hooks, agg.optimal_structure,
                                  agg.effective_ctas, agg.avg_effectiveness))
    /\ syn_pc' = "return"
    /\ UNCHANGED <<syn_analyses, syn_topic, syn_agg, syn_result, syn_raised>>

\* Lines 89-101: the record is built and returned.
SynthesizeReturn ==
    /\ SynFrame
    /\ syn_pc = "return"
    /\ syn_result' = Some(PatternSynthesis(syn_topic, syn_analyses, syn_agg[1],
                                           syn_report[1]))
    /\ syn_pc' = "done"
    /\ UNCHANGED <<syn_analyses, syn_topic, syn_agg, syn_llm_calls, syn_llm_outcome,
                   syn_report, syn_raised>>

SynNext ==
    \/ SynthesizeEmpty
    \/ SynthesizeAggregate
    \/ GenerateReportLlm
    \/ GenerateReportFallback
    \/ SynthesizeReturn

InitSynth == SynInit /\ BpIdle /\ AnIdle /\ GenIdle /\ QsIdle /\ SeIdle /\ QeIdle /\ PlIdle /\ TrIdle /\ VaIdle

SpecSynth == InitSynth /\ [][SynNext]_vars

(***************************************************************************)
(* Properties of synthesize.                                               *)
(***************************************************************************)
\* Sum of values[i] * weights[i] over the positions i..Len with valid[i].
RECURSIVE PairedProducts(_, _, _, _)
PairedProducts(values, valid, weights, i) ==
    IF i > Len(values) THEN 0
    ELSE (IF valid[i] THEN values[i] * weights[i] ELSE 0)
         + PairedProducts(values, valid, weights, i + 1)

\* Sum of weights[i] over the positions i..Len with valid[i].
RECURSIVE ValidWeights(_, _, _)
ValidWeights(valid, weights, i) ==
    IF i > Len(valid) THEN 0
    ELSE (IF valid[i] THEN weights[i] ELSE 0) + ValidWeights(valid, weights, i + 1)

\* The average of the valid values, each weighted by its own analysis's score.
PairedAverage(values, weights, default) ==
    LET valid == [i \in 1..Len(values) |-> values[i] > 0]
    IN  IF \E i \in 1..Len(values) : valid[i]
        THEN [num |-> PairedProducts(values, valid, weights, 1),
              den |-> ValidWeights(valid, weights, 1)]
        ELSE [num |-> default, den |-> 1]

Scores(analyses) == [i \in 1..Len(analyses) |-> analyses[i].effectiveness_score]

\* C1: each weighted average of the optimal structure is
\* sum(value * weight) / sum(weight) over the analyses whose value for that
\* field is positive, each value weighted by the effectiveness_score of its
\* own analysis, and the default (15, 60, 0) when no value is positive.
C1_AveragesWeightedByOwnScore ==
    syn_agg # None =>
        LET os == syn_agg[1].optimal_structure
            n == Len(syn_analyses)
            w == Scores(syn_analyses)
        IN  /\ FracEq(os.hook_duration_avg,
                      PairedAverage([i \in 1..n |-> syn_analyses[i].hook_end], w, 15))
            /\ FracEq(os.intro_end_avg,
                      PairedAverage([i \in 1..n |-> syn_analyses[i].intro_end], w, 60))
            /\ FracEq(os.conclusion_start_avg,
                      PairedAverage([i \in 1..n |-> syn_analyses[i].conclusion_start], w, 0))

\* The part of C1 the code does satisfy: when the analyses with a positive
\* value form a prefix of the list, the averages are the paired ones.
ValidPrefix(values) ==
    \A i, j \in 1..Len(values) : i < j /\ values[j] > 0 => values[i] > 0

C1_AveragesPairedOnPrefix ==
    syn_agg # None =>
        LET os == syn_agg[1].optimal_structure
            n == Len(syn_analyses)
            w == Scores(syn_analyses)
            hook_ends == [i \in 1..n |-> syn_analyses[i].hook_end]
        IN  ValidPrefix(hook_ends) =>
                FracEq(os.hook_duration_avg, PairedAverage(hook_ends, w, 15))

\* The fallback report carries the aggregates it was built from.
ReportFromAggregates(report, agg) ==
    /\ report.kind = "fallback"
    /\ report.topic = syn_topic
    /\ report.num_videos = Len(syn_analyses)
    /\ report.sections = agg.optimal_structure.num_sections_mode
    /\ Len(report.hooks) = Min(5, Len(agg.top_hooks))
    /\ \A i \in 1..Len(report.hooks) :
          report.hooks[i].text = Take(agg.top_hooks[i].text, 100)
    /\ Len(report.ctas) = Min(5, Len(agg.effective_ctas))
    /\ \A i \in 1..Len(report.ctas) :
          /\ report.ctas[i].text = agg.effective_ctas[i].text
          /\ report.ctas[i].frequency = agg.effective_ctas[i].frequency

C6_EmptyInputRaisesFirst ==
    syn_analyses = <<>> /\ syn_pc \notin {"idle", "start"} =>
        /\ syn_pc = "raised"
        /\ syn_raised = "ValueError"
        /\ syn_agg = None
        /\ syn_llm_calls = 0
        /\ syn_llm_outcome = "none"
        /\ syn_report = None
        /\ syn_result = None

C6_Witness == syn_analyses = <<>> /\ syn_pc = "raised" /\ syn_raised = "ValueError"

RECURSIVE TotalScore(_, _)
TotalScore(analyses, i) ==
    IF i > Len(analyses) THEN 0
    ELSE analyses[i].effectiveness_score + TotalScore(analyses, i + 1)

\* C7: the record returned has num_videos_analyzed = len(analyses) and
\* average_effectiveness = the sum of every analysis's effectiveness_score
\* divided by len(analyses), failure defaults counted like the rest.
C7_CountAndMean ==
    syn_result # None =>
        /\ syn_analyses # <<>>
        /\ syn_result[1].num_videos_analyzed = Len(syn_analyses)
        /\ syn_result[1].average_effectiveness.num * Len(syn_analyses)
              = TotalScore(syn_analyses, 1) * syn_result[1].average_effectiveness.den

C7_Witness ==
    /\ syn_result # None
    /\ Len(syn_analyses) = 3
    /\ syn_analyses[2] = DefaultAnalysis(Video2, "")
    /\ syn_analyses[1].video = Video0
    /\ syn_analyses[3].video = Video1
    /\ syn_analyses[1].hook_text # ""
    /\ syn_result[1].num_videos_analyzed = 3
    /\ FracEq(syn_result[1].average_effectiveness, [num |-> 1040, den |-> 3])

Hooked(analyses) == {i \in 1..Len(analyses) : analyses[i].hook_text # ""}

\* The place of analysis i among the hooks: after every hook with a higher
\* score and every earlier hook with the same score.
Rank(analyses, i) ==
    1 + Cardinality({j \in Hooked(analyses) :
            \/ analyses[j].effectiveness_score > analyses[i].effectiveness_score
            \/ /\ analyses[j].effectiveness_score = analyses[i].effectiveness_score
               /\ j < i})

\* C8: top_hooks holds one descriptor per analysis with a non-empty hook text
\* and none for the others, weighted_score = effectiveness_score, in
\* descending order of score with input order kept among equal scores, cut
\* to the first 10; the hook of an analysis whose score is strictly the
\* highest comes first.
C8_TopHooksRanked ==
    syn_agg # None =>
        LET top == syn_agg[1].top_hooks
            as == syn_analyses
        IN  /\ Len(top) = Min(10, Cardinality(Hooked(as)))
            /\ \A i \in Hooked(as) :
                  Rank(as, i) <= 10 =>
                      /\ top[Rank(as, i)].weighted_score = as[i].effectiveness_score
                      /\ top[Rank(as, i)].text = Take(as[i].hook_text, 200)
                      /\ top[Rank(as, i)].video_title = as[i].video.title
            /\ \A k \in 1..(Len(top) - 1) :
                  top[k].weighted_score >= top[k + 1].weighted_score
            /\ \A i \in Hooked(as) :
                  (\A j \in 1..Len(as) :
                      j # i => as[j].effectiveness_score < as[i].effectiveness_score)
                  => top[1].video_title = as[i].video.title

C8_Witness ==
    /\ syn_agg # None
    /\ Len(syn_analyses) = 3
    /\ \A i \in 1..3 : syn_analyses[i].hook_text = "Hook example"
    /\ syn_analyses[1].video = Video0
    /\ syn_analyses[2].video = Video1
    /\ syn_analyses[3].video = Video2
    /\ syn_agg[1].top_hooks[1].video_title = "Python Tutorial 2"
    /\ syn_agg[1].top_hooks[1].weighted_score = 440

C8_WitnessTruncated ==
    /\ syn_agg # None
    /\ Cardinality(Hooked(syn_analyses)) = 11
    /\ Len(syn_agg[1].top_hooks) = 10
    /\ syn_analyses[1].video = Video0

\* The (type, text) pairs of the CTAs of the analyses, with the defaults the
\* code reads a missing key as.
CtaPairs(analyses) ==
    LET occs == CtaOccurrences(analyses)
    IN  [i \in 1..Len(occs) |->
            <<Get(occs[i].cta, "type", "unknown"), Get(occs[i].cta, "text", "")>>]

\* C9: effective_ctas has, for every (type, text) among the CTAs of the
\* analyses, exactly one entry, whose frequency is the number of CTAs with
\* that type and that text; frequencies descend; at most 15 entries.
C9_CtasMergedByTypeAndText ==
    syn_agg # None =>
        LET ctas == syn_agg[1].effective_ctas
            pairs == CtaPairs(syn_analyses)
            kinds == {pairs[i] : i \in 1..Len(pairs)}
        IN  /\ Len(ctas) = Min(15, Cardinality(kinds))
            /\ \A k \in 1..(Len(ctas) - 1) : ctas[k].frequency >= ctas[k + 1].frequency
            /\ Cardinality(kinds) <= 15 =>
                  \A pair \in kinds :
                      /\ Cardinality({k \in 1..Len(ctas) :
                              <<ctas[k].type, ctas[k].text>> = pair}) = 1
                      /\ \A k \in 1..Len(ctas) :
                            <<ctas[k].type, ctas[k].text>> = pair =>
                                ctas[k].frequency
                                  = Cardinality({i \in 1..Len(pairs) : pairs[i] = pair})

\* The part of C9 the code does satisfy: CTAs without ":" in type and text.
NoColon(pair) == ~HasColon(pair[1]) /\ ~HasColon(pair[2])

C9_MergedWhenNoColon ==
    syn_agg # None =>
        LET ctas == syn_agg[1].effective_ctas
            pairs == CtaPairs(syn_analyses)
            kinds == {pairs[i] : i \in 1..Len(pairs)}
        IN  (\A pair \in kinds : NoColon(pair)) /\ Cardinality(kinds) <= 15 =>
                /\ Len(ctas) = Cardinality(kinds)
                /\ \A k \in 1..(Len(ctas) - 1) : ctas[k].frequency >= ctas[k + 1].frequency
                /\ \A pair \in kinds :
                      \E k \in 1..Len(ctas) :
                          /\ <<ctas[k].type, ctas[k].text>> = pair
                          /\ ctas[k].frequency
                               = Cardinality({i \in 1..Len(pairs) : pairs[i] = pair})

C9_WitnessMerged ==
    /\ syn_agg # None
    /\ Len(syn_analyses) = 2
    /\ syn_analyses[1].ctas = <<LikeCta>>
    /\ syn_analyses[2].ctas = <<LikeCta>>
    /\ Len(syn_agg[1].effective_ctas) = 1
    /\ syn_agg[1].effective_ctas[1].frequency = 2

\* The number of CTAs of the analyses with exactly this type and this text.
CtasWith(type, text) ==
    LET pairs == CtaPairs(syn_analyses)
    IN  Cardinality({i \in 1..Len(pairs) : pairs[i] = <<type, text>>})

\* C28: two CTAs are merged into one entry of effective_ctas only if their
\* types are equal and their texts are equal: an entry never counts a CTA
\* of another (type, text) pair, whether or not ":" occurs in them.
C28_MergedOnlyWhenTypeAndTextEqual ==
    syn_agg # None =>
        \A k \in 1..Len(syn_agg[1].effective_ctas) :
            LET cta == syn_agg[1].effective_ctas[k]
            IN  cta.frequency = CtasWith(cta.type, cta.text)

\* The part of C28 that holds: no ":" in any type or text.
C28_NoMergeWithoutColon ==
    syn_agg # None =>
        LET pairs == CtaPairs(syn_analyses)
        IN  (\A i \in 1..Len(pairs) : NoColon(pairs[i])) =>
                \A k \in 1..Len(syn_agg[1].effective_ctas) :
                    LET cta == syn_agg[1].effective_ctas[k]
                    IN  cta.frequency = CtasWith(cta.type, cta.text)

\* ("a:b", "c") and ("a", "b:c") end in one entry of frequency 2.
C28_WitnessColonMerged ==
    /\ syn_agg # None
    /\ Len(syn_analyses) = 2
    /\ syn_analyses[1].ctas = <<ColonTypeCta>>
    /\ syn_analyses[2].ctas = <<ColonTextCta>>
    /\ Len(syn_agg[1].effective_ctas) = 1
    /\ syn_agg[1].effective_ctas[1].frequency = 2

\* The timestamps of the CTAs of the analyses whose video has a duration.
CtaTimestamps ==
    LET occs == CtaOccurrences(syn_analyses)
    IN  {Get(occs[i].cta, "timestamp", [int |-> 0]) :
            i \in {j \in 1..Len(occs) : occs[j].duration_seconds > 0}}

\* An integer, or a string "M:S" of two numbers.
IsNumericTimestamp(t) ==
    \/ "int" \in DOMAIN t
    \/ /\ "str" \in DOMAIN t
       /\ HasColon(t.str)
       /\ IsDigitString(SplitColon(t.str)[1])
       /\ IsDigitString(SplitColon(t.str)[2])

\* C29: synthesize on a non-empty list returns and does not raise, whatever
\* the timestamp of a CTA is (integer seconds, "MM:SS", a string without
\* ":", a string with non-numeric parts).
C29_AnyTimestampReturns ==
    ~IsEmptyInput(syn_analyses) => syn_raised = "none"

\* The part of C29 that holds: integer and "MM:SS" timestamps.
C29_NumericTimestampsReturn ==
    (~IsEmptyInput(syn_analyses) /\ \A t \in CtaTimestamps : IsNumericTimestamp(t))
        => syn_raised = "none"

\* A timestamp "90", a string without ":", ends synthesize with TypeError.
C29_WitnessPlainSecondsRaise ==
    /\ CtaTimestamps = {[str |-> "90"]}
    /\ syn_pc = "raised"
    /\ syn_raised = "TypeError"

\* A timestamp "min 5:30" ends synthesize with ValueError.
C29_WitnessWordsRaise ==
    /\ CtaTimestamps = {[str |-> "min 5:30"]}
    /\ syn_pc = "raised"
    /\ syn_raised = "ValueError"

\* The items of one list field over the analyses in hand.
ItemsOf(field) ==
    UNION {{syn_analyses[k][field][i] : i \in 1..Len(syn_analyses[k][field])} :
              k \in 1..Len(syn_analyses)}

\* The sum, over every occurrence of the item, of the truncated score of the
\* analysis it occurs in (scores are in hundredths).
WeightedFrequency(field, item) ==
    SeqSum([k \in 1..Len(syn_analyses) |->
               (syn_analyses[k].effectiveness_score \div 100)
               * Cardinality({i \in 1..Len(syn_analyses[k][field]) :
                                 syn_analyses[k][field][i] = item})])

\* The table holds the n most frequent items of the field, each once, with
\* its weighted frequency, most frequent first.
IsWeightedTable(table, field, label, n) ==
    /\ Len(table) = Min(n, Cardinality(ItemsOf(field)))
    /\ \A i \in 1..Len(table) :
           /\ table[i][label] \in ItemsOf(field)
           /\ table[i].frequency = WeightedFrequency(field, table[i][label])
           /\ \A j \in 1..Len(table) : table[j][label] = table[i][label] => j = i
           /\ i < Len(table) => table[i].frequency >= table[i + 1].frequency
           /\ \A item \in ItemsOf(field) :
                  (\A j \in 1..Len(table) : table[j][label] # item) =>
                      table[i].frequency >= WeightedFrequency(field, item)

\* C24: in the vocabulary tables (technical terms, common phrases,
\* transition phrases) and the SEO tables (title keywords, estimated tags)
\* the frequency of an item is the sum over its occurrences of the
\* integer-truncated effectiveness_score of the analysis it occurs in; each
\* table is ranked by frequency descending and keeps at most 20, 15, 10, 15
\* and 20 entries.
C24_WeightedFrequencyTables ==
    syn_agg # None =>
        /\ IsWeightedTable(syn_agg[1].key_vocabulary.technical_terms, "technical_terms", "term", 20)
        /\ IsWeightedTable(syn_agg[1].key_vocabulary.common_phrases, "common_phrases", "phrase", 15)
        /\ IsWeightedTable(syn_agg[1].key_vocabulary.transition_phrases, "transition_phrases", "phrase", 10)
        /\ IsWeightedTable(syn_agg[1].seo_patterns.title_keywords, "title_keywords", "keyword", 15)
        /\ IsWeightedTable(syn_agg[1].seo_patterns.estimated_tags, "estimated_tags", "tag", 20)

\* "api" occurs twice in an analysis of weight 2 and once in one of weight
\* 3: its frequency is 7 and it comes before "docker".
C24_Witness ==
    /\ syn_agg # None
    /\ Len(syn_analyses) = 2
    /\ syn_analyses[1].effectiveness_score \div 100 = 2
    /\ syn_analyses[2].effectiveness_score \div 100 = 3
    /\ syn_agg[1].key_vocabulary.technical_terms
           = <<[term |-> [str |-> "api"], frequency |-> 7],
               [term |-> [str |-> "docker"], frequency |-> 2]>>

\* 22 terms, 11 transitions and 21 tags: the tables keep 20, 10 and 20.
C24_WitnessTruncated ==
    /\ syn_agg # None
    /\ Cardinality(ItemsOf("technical_terms")) = 22
    /\ Len(syn_agg[1].key_vocabulary.technical_terms) = 20
    /\ syn_agg[1].key_vocabulary.technical_terms[1] = [term |-> [str |-> "api"], frequency |-> 4]
    /\ Len(syn_agg[1].key_vocabulary.transition_phrases) = 10
    /\ Len(syn_agg[1].seo_patterns.estimated_tags) = 20
    /\ syn_agg[1].seo_patterns.estimated_tags[1].frequency = 11

\* The analyses in hand that score at least 3.5.
EligibleAnalyses == {k \in 1..Len(syn_analyses) : syn_analyses[k].effectiveness_score >= 350}

\* The positions of the techniques of analysis k that carry the name.
NamedAt(k, name) ==
    {i \in 1..Len(syn_analyses[k].techniques) :
        /\ "name" \in DOMAIN syn_analyses[k].techniques[i]
        /\ syn_analyses[k].techniques[i].name = name}

EligibleNames ==
    UNION {{syn_analyses[k].techniques[i].name :
               i \in {j \in 1..Len(syn_analyses[k].techniques) :
                         "name" \in DOMAIN syn_analyses[k].techniques[j]}} :
              k \in EligibleAnalyses} \ {""}

EligibleCount(name) ==
    SeqSum([k \in 1..Len(syn_analyses) |->
               IF k \in EligibleAnalyses THEN Cardinality(NamedAt(k, name)) ELSE 0])

\* The description of the first occurrence of the name in an eligible
\* analysis ("" when that occurrence has none).
FirstEligibleDescription(name) ==
    LET k == CHOOSE k \in EligibleAnalyses :
                 /\ NamedAt(k, name) # {}
                 /\ \A h \in EligibleAnalyses : h < k => NamedAt(h, name) = {}
        i == CHOOSE i \in NamedAt(k, name) : \A j \in NamedAt(k, name) : i <= j
        t == syn_analyses[k].techniques[i]
    IN  IF "description" \in DOMAIN t THEN t.description ELSE ""

\* C25: notable_techniques holds only names of techniques of analyses with
\* effectiveness_score >= 3.5; the frequency of a name is the unweighted
\* count of its occurrences in those analyses; the entries are ranked by
\* frequency descending, at most 10 are kept, and the description of an
\* entry is that of the first eligible occurrence of its name.
C25_NotableTechniquesFromEligible ==
    syn_agg # None =>
        LET table == syn_agg[1].notable_techniques
        IN  /\ Len(table) = Min(10, Cardinality(EligibleNames))
            /\ \A i \in 1..Len(table) :
                   /\ table[i].name \in EligibleNames
                   /\ table[i].frequency = EligibleCount(table[i].name)
                   /\ table[i].description = FirstEligibleDescription(table[i].name)
                   /\ \A j \in 1..Len(table) : table[j].name = table[i].name => j = i
                   /\ i < Len(table) => table[i].frequency >= table[i + 1].frequency
                   /\ \A name \in EligibleNames :
                          (\A j \in 1..Len(table) : table[j].name # name) =>
                              table[i].frequency >= EligibleCount(name)

\* "demo" occurs first in an analysis below 3.5 and then in an eligible one:
\* it is counted once, with the eligible description; "story" is counted
\* three times over two eligible analyses.
C25_Witness ==
    /\ syn_agg # None
    /\ Len(syn_analyses) = 3
    /\ 1 \notin EligibleAnalyses
    /\ NamedAt(1, "demo") # {}
    /\ syn_agg[1].notable_techniques
           = <<[name |-> "story", description |-> "Tells a story", frequency |-> 3],
               [name |-> "demo", description |-> "Live demo", frequency |-> 1],
               [name |-> "recap", description |-> "", frequency |-> 1]>>

\* Eleven names in an eligible analysis: ten are kept.
C25_WitnessTruncated ==
    /\ syn_agg # None
    /\ Cardinality(EligibleNames) = 11
    /\ Len(syn_agg[1].notable_techniques) = 10

\* The analysis is the default the Analyzer substitutes on failure, with
\* raw_analysis empty (LLM failure) or the response text (parse failure).
IsFailureDefault(a) == a = DefaultAnalysis(a.video, a.raw_analysis)

\* The analyses without the one at position p.
WithoutAt(analyses, p) ==
    [i \in 1..(Len(analyses) - 1) |-> IF i < p THEN analyses[i] ELSE analyses[i + 1]]

\* The aggregates of the input in hand agree, on the fields a failure
\* default must not touch, with those of the input without position p.
SameContentWithout(p) ==
    LET with == syn_agg[1]
        without == Aggregates(WithoutAt(syn_analyses, p))
    IN  /\ with.top_hooks = without.top_hooks
        /\ with.effective_ctas = without.effective_ctas
        /\ with.key_vocabulary = without.key_vocabulary
        /\ with.notable_techniques = without.notable_techniques
        /\ with.seo_patterns = without.seo_patterns
        /\ with.optimal_structure.num_sections_mode
              = without.optimal_structure.num_sections_mode
        /\ with.optimal_structure.total_videos
              = without.optimal_structure.total_videos + 1

\* C30: an input of synthesize with a failure-default analysis added gives
\* the same top_hooks, effective_ctas, key_vocabulary, notable_techniques,
\* seo_patterns and num_sections_mode as the input without it; the count of
\* videos grows by one (the averages may change).
C30_FailureDefaultAddsNoContent ==
    syn_agg # None =>
        \A p \in 1..Len(syn_analyses) :
            (Len(syn_analyses) > 1 /\ IsFailureDefault(syn_analyses[p]))
                => SameContentWithout(p)

\* A failure default between two analyses with hooks, CTAs, vocabulary,
\* techniques and sections: the content is that of the two, the mean
\* effectiveness is not.
C30_Witness ==
    /\ syn_agg # None
    /\ Len(syn_analyses) = 3
    /\ IsFailureDefault(syn_analyses[2])
    /\ ~IsFailureDefault(syn_analyses[1])
    /\ ~IsFailureDefault(syn_analyses[3])
    /\ Len(syn_agg[1].top_hooks) = 2
    /\ syn_agg[1].effective_ctas # <<>>
    /\ syn_agg[1].key_vocabulary.technical_terms # <<>>
    /\ syn_agg[1].notable_techniques # <<>>
    /\ syn_agg[1].optimal_structure.num_sections_mode = 1
    /\ syn_agg[1].avg_effectiveness # average_effectiveness(WithoutAt(syn_analyses, 2))
    /\ syn_agg[1].optimal_structure.hook_duration_avg
          # calculate_optimal_structure(WithoutAt(syn_analyses, 2)).hook_duration_avg

(***************************************************************************)
(* batch_processor.py: BatchProcessor.process_videos as a state machine.   *)
(* bp_i is the loop's video (1-based); bp_audio holds the videos whose      *)
(* audio file is in the temp directory; bp_attempts logs how the loop body *)
(* of each video ended.                                                    *)
(***************************************************************************)
MaxVideos == 3

BatchInputs == SeqsUpTo({Video0, Video1}, MaxVideos)

\* result.language or "unknown"
LanguageOr(language) == IF language = None \/ language[1] = "" THEN "unknown" ELSE language[1]

\* _transcribe_video: the VideoTranscript of a successful transcription.
VideoTranscript(video, text, language) ==
    [video |-> video, transcript_text |-> text, word_timestamps |-> <<>>,
     language |-> LanguageOr(language)]

TranscribedText(video) == "transcript of " \o video.video_id

\* process_videos touches no other component.
BpFrame == UNCHANGED <<an_vars, syn_vars, gen_vars, qs_vars, se_vars, qe_vars, pl_vars, tr_vars, va_vars>>

BpInit ==
    /\ bp_videos \in BatchInputs
    /\ bp_pc = "loop"
    /\ bp_i = 1
    /\ bp_transcripts = <<>>
    /\ bp_failed_count = 0
    /\ bp_audio = {}
    /\ bp_attempts = <<>>
    /\ bp_cleanup = "none"
    /\ bp_outcome = "none"

\* The for statement: the next video, or the end of the loop.
LoopNext ==
    /\ BpFrame
    /\ bp_pc = "loop"
    /\ bp_pc' = IF bp_i <= Len(bp_videos) THEN "download" ELSE "cleanup"
    /\ UNCHANGED <<bp_videos, bp_i, bp_transcripts, bp_failed_count, bp_audio,
                   bp_attempts, bp_cleanup, bp_outcome>>

\* A loop that stops at the first failing video instead of skipping it.
AbortOnFailure(how) ==
    /\ bp_failed_count' = bp_failed_count + 1
    /\ bp_attempts' = Append(bp_attempts, how)
    /\ bp_i' = bp_i
    /\ bp_pc' = "cleanup"

\* except Exception (lines 102-104) and finally: the video is counted as
\* failed and the loop goes on with the next one.
VideoFailed(how) ==
    /\ bp_failed_count' = bp_failed_count + 1
    /\ bp_attempts' = Append(bp_attempts, how)
    /\ bp_i' = bp_i + 1
    /\ bp_pc' = "loop"

\* Line 91: _download_video returns the audio path.
DownloadOk ==
    /\ BpFrame
    /\ bp_pc = "download"
    /\ bp_audio' = bp_audio \cup {bp_i}
    /\ bp_pc' = "transcribe"
    /\ UNCHANGED <<bp_videos, bp_i, bp_transcripts, bp_failed_count, bp_attempts,
                   bp_cleanup, bp_outcome>>

\* Line 91: _download_video raises.
DownloadRaises ==
    /\ BpFrame
    /\ bp_pc = "download"
    /\ VideoFailed("download_failed")
    /\ UNCHANGED <<bp_videos, bp_transcripts, bp_audio, bp_cleanup, bp_outcome>>

\* Lines 94-95: _transcribe_video returns and the transcript is appended.
TranscribeOk ==
    /\ BpFrame
    /\ bp_pc = "transcribe"
    /\ \E language \in {None, Some("en")} :
          bp_transcripts' = Append(bp_transcripts,
              VideoTranscript(bp_videos[bp_i], TranscribedText(bp_videos[bp_i]), language))
    /\ bp_pc' = "unlink"
    /\ UNCHANGED <<bp_videos, bp_i, bp_failed_count, bp_audio, bp_attempts,
                   bp_cleanup, bp_outcome>>

\* Line 94: _transcribe_video raises; the audio file stays.
TranscribeRaises ==
    /\ BpFrame
    /\ bp_pc = "transcribe"
    /\ VideoFailed("transcribe_failed")
    /\ UNCHANGED <<bp_videos, bp_transcripts, bp_audio, bp_cleanup, bp_outcome>>

\* Lines 98-100 and finally: the audio file is deleted.
UnlinkOk ==
    /\ BpFrame
    /\ bp_pc = "unlink"
    /\ bp_audio' = bp_audio \ {bp_i}
    /\ bp_attempts' = Append(bp_attempts, "ok")
    /\ bp_i' = bp_i + 1
    /\ bp_pc' = "loop"
    /\ UNCHANGED <<bp_videos, bp_transcripts, bp_failed_count, bp_cleanup, bp_outcome>>

\* A loop that takes the transcript back when the audio file cannot be
\* deleted.
UnlinkFailureDropsTranscript ==
    /\ BpFrame
    /\ bp_pc = "unlink"
    /\ VideoFailed("unlink_failed")
    /\ bp_transcripts' = SubSeq(bp_transcripts, 1, Len(bp_transcripts) - 1)
    /\ UNCHANGED <<bp_videos, bp_audio, bp_cleanup, bp_outcome>>

\* Line 98: audio_path.unlink raises (an OSError other than a missing file).
UnlinkRaises ==
    /\ BpFrame
    /\ bp_pc = "unlink"
    /\ VideoFailed("unlink_failed")
    /\ UNCHANGED <<bp_videos, bp_transcripts, bp_audio, bp_cleanup, bp_outcome>>

\* A _cleanup without its except clause: the exception of a failed cleanup
\* leaves process_videos.
CleanupPropagates ==
    /\ BpFrame
    /\ bp_pc = "cleanup"
    /\ \/ bp_cleanup' = "ok" /\ bp_audio' = {} /\ bp_pc' = "check"
          /\ UNCHANGED bp_outcome
       \/ bp_cleanup' = "failed" /\ UNCHANGED bp_audio /\ bp_pc' = "raised"
          /\ bp_outcome' = "OSError"
    /\ UNCHANGED <<bp_videos, bp_i, bp_transcripts, bp_failed_count, bp_attempts>>

\* Line 110 and _cleanup: every file of the temp directory is removed, or an
\* exception inside is caught and logged.
Cleanup ==
    /\ BpFrame
    /\ bp_pc = "cleanup"
    /\ \/ bp_cleanup' = "ok" /\ bp_audio' = {}
       \/ bp_cleanup' = "failed" /\ UNCHANGED bp_audio
    /\ bp_pc' = "check"
    /\ UNCHANGED <<bp_videos, bp_i, bp_transcripts, bp_failed_count, bp_attempts,
                   bp_outcome>>

\* A check that also rejects a single transcript.
FewTranscripts(transcripts) == Len(transcripts) < 2

\* if not transcripts
NoTranscripts(transcripts) == transcripts = <<>>

\* Lines 112-113: raise BatchProcessingError.
RaiseBatchProcessingError ==
    /\ BpFrame
    /\ bp_pc = "check"
    /\ NoTranscripts(bp_transcripts)
    /\ bp_outcome' = "BatchProcessingError"
    /\ bp_pc' = "raised"
    /\ UNCHANGED <<bp_videos, bp_i, bp_transcripts, bp_failed_count, bp_audio,
                   bp_attempts, bp_cleanup>>

\* Lines 115-121: return transcripts.
ReturnTranscripts ==
    /\ BpFrame
    /\ bp_pc = "check"
    /\ ~NoTranscripts(bp_transcripts)
    /\ bp_outcome' = "returned"
    /\ bp_pc' = "returned"
    /\ UNCHANGED <<bp_videos, bp_i, bp_transcripts, bp_failed_count, bp_audio,
                   bp_attempts, bp_cleanup>>

BpNext ==
    \/ LoopNext
    \/ DownloadOk
    \/ DownloadRaises
    \/ TranscribeOk
    \/ TranscribeRaises
    \/ UnlinkOk
    \/ UnlinkRaises
    \/ Cleanup
    \/ RaiseBatchProcessingError
    \/ ReturnTranscripts

InitBatch == BpInit /\ AnIdle /\ SynIdle /\ GenIdle /\ QsIdle /\ SeIdle /\ QeIdle /\ PlIdle /\ TrIdle /\ VaIdle

SpecBatch == InitBatch /\ [][BpNext]_vars

(***************************************************************************)
(* Properties of process_videos.                                           *)
(***************************************************************************)
BpFinished == bp_pc \in {"raised", "returned"}

\* The videos whose loop body reached the append of line 95.
RECURSIVE AppendedVideos(_, _, _)
AppendedVideos(videos, attempts, i) ==
    IF i > Len(attempts) THEN <<>>
    ELSE (IF attempts[i] \in {"ok", "unlink_failed"} THEN <<videos[i]>> ELSE <<>>)
         \o AppendedVideos(videos, attempts, i + 1)

TranscriptVideos == [k \in 1..Len(bp_transcripts) |-> bp_transcripts[k].video]

\* C2: a download or transcription error on one video skips only that video:
\* the loop goes on to every later video (one attempt per input video when
\* the call ends), the transcripts are exactly those of the videos that were
\* transcribed, in input order, and with 3 videos of which only the download
\* of the second raises the call returns exactly 2 transcripts.
C2_FailedVideoOnlySkipped ==
    /\ Len(bp_attempts) = bp_i - 1
    /\ bp_failed_count = Cardinality({k \in 1..Len(bp_attempts) : bp_attempts[k] # "ok"})
    /\ TranscriptVideos =
          AppendedVideos(bp_videos, bp_attempts, 1)
          \o (IF bp_pc = "unlink" THEN <<bp_videos[bp_i]>> ELSE <<>>)
    /\ bp_pc \in {"cleanup", "check", "raised", "returned"} =>
          Len(bp_attempts) = Len(bp_videos)
    /\ BpFinished /\ bp_attempts = <<"ok", "download_failed", "ok">> =>
          /\ bp_outcome = "returned"
          /\ Len(bp_transcripts) = 2
          /\ TranscriptVideos = <<bp_videos[1], bp_videos[3]>>

C2_Witness ==
    /\ bp_pc = "returned"
    /\ bp_attempts = <<"ok", "download_failed", "ok">>
    /\ Len(bp_transcripts) = 2

\* C3: when process_videos ends, it has raised BatchProcessingError exactly
\* when the transcript list is empty after every input video was attempted
\* (an empty input included); otherwise it has returned the partial list.
C3_RaisesIffNoTranscripts ==
    BpFinished =>
        /\ Len(bp_attempts) = Len(bp_videos)
        /\ bp_outcome \in {"BatchProcessingError", "returned"}
        /\ bp_outcome = "BatchProcessingError" <=> bp_transcripts = <<>>
        /\ bp_outcome = "BatchProcessingError" <=> bp_pc = "raised"
        /\ bp_videos = <<>> => bp_outcome = "BatchProcessingError"
        /\ bp_outcome = "returned" =>
              Len(bp_transcripts) = Len(bp_videos) - Cardinality(
                  {k \in 1..Len(bp_attempts) :
                      bp_attempts[k] \in {"download_failed", "transcribe_failed"}})

C3_Witness ==
    /\ bp_pc = "returned"
    /\ Len(bp_videos) = 3
    /\ bp_failed_count = 2
    /\ Len(bp_transcripts) = 1

C3_WitnessAllFailed ==
    /\ bp_pc = "raised"
    /\ Len(bp_videos) = 3
    /\ bp_failed_count = 3

C3_WitnessEmptyInput == bp_pc = "raised" /\ bp_videos = <<>>

\* The cleanup step has run.
CleanedUp == bp_cleanup \in {"ok", "failed"}

\* Where the call stands with respect to its cleanup step.
CleanupPlaced ==
    /\ BpFinished => CleanedUp
    /\ CleanedUp =>
          /\ Len(bp_attempts) = Len(bp_videos)
          /\ bp_i = Len(bp_videos) + 1
          /\ bp_pc \in {"check", "raised", "returned"}
    /\ ~CleanedUp => bp_outcome = "none" /\ ~BpFinished
    /\ BpFinished =>
          /\ bp_outcome \in {"BatchProcessingError", "returned"}
          /\ bp_outcome = "returned" <=> bp_transcripts # <<>>

\* The cleanup step leaves the transcripts, the counters and the outcome as
\* they are, whether it succeeds or fails, and goes on to the final check.
CleanupStep ==
    bp_cleanup' # bp_cleanup =>
        /\ bp_pc = "cleanup"
        /\ bp_cleanup = "none"
        /\ bp_pc' = "check"
        /\ UNCHANGED <<bp_videos, bp_transcripts, bp_failed_count, bp_attempts,
                       bp_outcome>>

\* C11: process_videos always performs the temp-directory cleanup on exit:
\* whether it returns transcripts or raises BatchProcessingError, and
\* whatever per-video steps failed, the cleanup runs after the last video
\* was attempted and before the call ends, and a failure inside the cleanup
\* changes neither the transcripts nor the outcome of the call.
C11_CleanupAlwaysRuns == []CleanupPlaced /\ [][CleanupStep]_vars

\* The call returned a partial list after a failed video and a failed
\* cleanup.
C11_Witness ==
    /\ bp_pc = "returned"
    /\ bp_cleanup = "failed"
    /\ bp_failed_count > 0
    /\ bp_audio # {}

\* The call raised BatchProcessingError after its cleanup removed the audio
\* file a failed transcription left behind.
C11_WitnessRaised ==
    /\ bp_pc = "raised"
    /\ bp_cleanup = "ok"
    /\ \E k \in 1..Len(bp_attempts) : bp_attempts[k] = "transcribe_failed"
    /\ bp_audio = {}

\* C21: a transcript is appended to the results only after the audio file
\* of its video has been deleted.
C21_AppendedAfterAudioDeleted ==
    [][Len(bp_transcripts') > Len(bp_transcripts) => bp_i \notin bp_audio']_vars

\* C21, the part that holds: the videos are taken one at a time in input
\* order; a download starts only from the for statement, with every earlier
\* video attempted and none later touched; the audio file of the video in
\* hand exists from its download to its deletion.
C21_OneVideoAtATime ==
    /\ bp_pc \in {"download", "transcribe", "unlink"} =>
           /\ bp_i \in 1..Len(bp_videos)
           /\ Len(bp_attempts) = bp_i - 1
    /\ \A k \in bp_audio : k <= bp_i /\ k <= Len(bp_videos)
    /\ bp_pc \in {"transcribe", "unlink"} => bp_i \in bp_audio
    /\ bp_pc = "download" => bp_i \notin bp_audio
    /\ Len(bp_transcripts) <= Len(bp_attempts) + (IF bp_pc = "unlink" THEN 1 ELSE 0)

C21_StepsInOrder ==
    [][/\ bp_pc' = "download" => bp_pc = "loop"
       /\ bp_pc' = "transcribe" => bp_pc = "download"
       /\ bp_pc' = "unlink" => bp_pc = "transcribe" /\ Len(bp_transcripts') = Len(bp_transcripts) + 1
       /\ bp_i' # bp_i => bp_i' = bp_i + 1 /\ bp_pc' = "loop"]_vars

\* The transcript of the second video is in the results while its audio
\* file is still there.
C21_WitnessAppendedFirst ==
    /\ bp_pc = "unlink"
    /\ bp_i = 2
    /\ bp_i \in bp_audio
    /\ Len(bp_transcripts) = 2

\* The input positions whose download and transcription both succeeded.
BothSucceeded ==
    {k \in 1..Len(bp_attempts) : bp_attempts[k] \notin {"download_failed", "transcribe_failed"}}

\* The n-th of those positions.
NthSucceeded(n) == CHOOSE k \in BothSucceeded : Cardinality({j \in BothSucceeded : j <= k}) = n

\* C27: when process_videos returns, the returned list is exactly the input
\* videos whose download and transcription both succeeded, in input order,
\* each once, whatever happened when the audio file was deleted.
C27_ReturnsExactlyTranscribed ==
    bp_pc = "returned" =>
        /\ Len(bp_transcripts) = Cardinality(BothSucceeded)
        /\ \A n \in 1..Len(bp_transcripts) :
               /\ bp_transcripts[n].video = bp_videos[NthSucceeded(n)]
               /\ bp_transcripts[n].transcript_text = TranscribedText(bp_videos[NthSucceeded(n)])

\* A download failed, a deletion failed, and both other videos are returned.
C27_Witness ==
    /\ bp_pc = "returned"
    /\ bp_attempts = <<"unlink_failed", "download_failed", "ok">>
    /\ bp_videos = <<Video0, Video0, Video1>>
    /\ Len(bp_transcripts) = 2

(***************************************************************************)
(* pattern_analyzer.py: the values json.loads returns, each tagged with    *)
(* its Python type: [str |-> s], [int |-> n], [list |-> seq],              *)
(* [dict |-> function], [null |-> TRUE].                                   *)
(***************************************************************************)
JsonNull == [null |-> TRUE]
IsStr(v) == "str" \in DOMAIN v
IsInt(v) == "int" \in DOMAIN v
IsList(v) == "list" \in DOMAIN v
IsDict(v) == "dict" \in DOMAIN v
IsNull(v) == "null" \in DOMAIN v

\* bool(v)
Truthy(v) ==
    CASE IsStr(v) -> v.str # ""
      [] IsInt(v) -> v.int # 0
      [] IsList(v) -> v.list # <<>>
      [] IsDict(v) -> DOMAIN v.dict # {}
      [] OTHER -> FALSE

\* data.get(key, default) on a dict value
JsonGet(data, key, default) == IF key \in DOMAIN data.dict THEN data.dict[key] ELSE default

\* str.strip(), startswith, endswith and slices, on the characters.
IsSpace(c) == c \in {" ", "\n", "\t"}

RECURSIVE LStrip(_)
LStrip(s) ==
    IF Len(s) > 0 /\ IsSpace(CharAt(s, 1)) THEN LStrip(SubSeq(s, 2, Len(s))) ELSE s

RECURSIVE RStrip(_)
RStrip(s) ==
    IF Len(s) > 0 /\ IsSpace(CharAt(s, Len(s))) THEN RStrip(SubSeq(s, 1, Len(s) - 1)) ELSE s

Strip(s) == RStrip(LStrip(s))
StartsWith(s, prefix) == Len(s) >= Len(prefix) /\ SubSeq(s, 1, Len(prefix)) = prefix
EndsWith(s, suffix) ==
    Len(s) >= Len(suffix) /\ SubSeq(s, Len(s) - Len(suffix) + 1, Len(s)) = suffix
DropFirst(s, n) == SubSeq(s, n + 1, Len(s))
DropLast(s, n) == SubSeq(s, 1, Len(s) - n)
Contains(s, part) ==
    \E i \in 1..(Len(s) - Len(part) + 1) : SubSeq(s, i, i + Len(part) - 1) = part

\* The markdown fences, "~" standing for the backquote.
Fence == "~~~"
JsonFence == "~~~json"

\* Lines 157-164: the response without its markdown fence.
clean_text(response_text) ==
    LET c0 == Strip(response_text)
        c1 == IF StartsWith(c0, JsonFence) THEN DropFirst(c0, 7) ELSE c0
        c2 == IF StartsWith(c1, Fence) THEN DropFirst(c1, 3) ELSE c1
        c3 == IF EndsWith(c2, Fence) THEN DropLast(c2, 3) ELSE c2
    IN  Strip(c3)

(***************************************************************************)
(* The responses of the model under study, as Gemini's response.text.      *)
(* A string of the model cannot hold the backquote: "~" stands for it.     *)
(***************************************************************************)
FencedJsonResponse ==
    "~~~json\n{\"opening_hook\": \"Did you know?\", \"hook_type\": \"question\", \"hook_effectiveness\": \"high\", \"ctas\": [{\"type\": \"like\", \"timestamp\": \"0:10\", \"text\": \"Like this video\"}], \"sections\": [{\"title\": \"Intro\", \"start\": \"0:00\", \"end\": \"1:05\"}, {\"title\": \"Main\", \"start\": \"1:05\", \"end\": \"3:30\"}], \"vocabulary_patterns\": [\"as you can see\"], \"technical_terms\": [\"lambda\"], \"persuasion_techniques\": [\"Live demo\"], \"seo_keywords\": [\"k01\", \"k02\", \"k03\", \"k04\", \"k05\", \"k06\", \"k07\", \"k08\", \"k09\", \"k10\", \"k11\"]}\n~~~"

FencedResponse ==
    "~~~\n{\"opening_hook\": \"Hello\", \"sections\": [{\"title\": \"Intro\", \"end\": \"45\"}]}\n~~~\n"

BareResponse ==
    "  {\"opening_hook\": \"Hello\"}\n"

EmptyObjectResponse ==
    "{}"

ProseResponse ==
    "I cannot analyze this video."

EmptyResponse ==
    ""

UnclosedFenceResponse ==
    "~~~json\n{\"opening_hook\": \"Hello\""

TopListResponse ==
    "[1]"

EndIntResponse ==
    "{\"sections\": [{\"end\": 30}]}"

EndWordsResponse ==
    "{\"sections\": [{\"end\": \"soon\"}]}"

EndBadColonResponse ==
    "{\"sections\": [{\"end\": \"1:xx\"}]}"

EndHoursResponse ==
    "{\"sections\": [{\"end\": \"1:02:03\"}]}"

EndZeroResponse ==
    "{\"sections\": [{\"start\": \"0:00\", \"end\": \"0:00\"}]}"

NoEndResponse ==
    "{\"sections\": [{\"title\": \"Intro\"}]}"

SectionsDictResponse ==
    "{\"sections\": {\"a\": 1}}"

CtasNullResponse ==
    "{\"opening_hook\": \"Hello\", \"ctas\": null}"

CtasTextResponse ==
    "{\"ctas\": \"none\"}"

TechniquesNullResponse ==
    "{\"persuasion_techniques\": null}"

KeywordsNullResponse ==
    "{\"seo_keywords\": null}"

HookIntResponse ==
    "{\"opening_hook\": 5}"

NumericTermsResponse ==
    "{\"opening_hook\": \"Hello\", \"technical_terms\": [5]}"

NumericKeywordsResponse ==
    "{\"opening_hook\": \"Hello\", \"seo_keywords\": [7]}"

Responses ==
    {FencedJsonResponse,
     FencedResponse,
     BareResponse,
     EmptyObjectResponse,
     ProseResponse,
     EmptyResponse,
     UnclosedFenceResponse,
     TopListResponse,
     EndIntResponse,
     EndWordsResponse,
     EndBadColonResponse,
     EndHoursResponse,
     EndZeroResponse,
     NoEndResponse,
     SectionsDictResponse,
     CtasNullResponse,
     CtasTextResponse,
     TechniquesNullResponse,
     KeywordsNullResponse,
     HookIntResponse,
     NumericTermsResponse,
     NumericKeywordsResponse}

\* json.loads on the cleaned texts of Responses: the value of each text that
\* is JSON; every other text of Responses is not JSON (JSONDecodeError).
json_loads(text) ==
    CASE text = "{\"opening_hook\": \"Did you know?\", \"hook_type\": \"question\", \"hook_effectiveness\": \"high\", \"ctas\": [{\"type\": \"like\", \"timestamp\": \"0:10\", \"text\": \"Like this video\"}], \"sections\": [{\"title\": \"Intro\", \"start\": \"0:00\", \"end\": \"1:05\"}, {\"title\": \"Main\", \"start\": \"1:05\", \"end\": \"3:30\"}], \"vocabulary_patterns\": [\"as you can see\"], \"technical_terms\": [\"lambda\"], \"persuasion_techniques\": [\"Live demo\"], \"seo_keywords\": [\"k01\", \"k02\", \"k03\", \"k04\", \"k05\", \"k06\", \"k07\", \"k08\", \"k09\", \"k10\", \"k11\"]}" ->
            [raised |-> "none", value |-> [dict |-> [opening_hook |-> [str |-> "Did you know?"], hook_type |-> [str |-> "question"], hook_effectiveness |-> [str |-> "high"], ctas |-> [list |-> <<[dict |-> [type |-> [str |-> "like"], timestamp |-> [str |-> "0:10"], text |-> [str |-> "Like this video"]]]>>], sections |-> [list |-> <<[dict |-> [title |-> [str |-> "Intro"], start |-> [str |-> "0:00"], end |-> [str |-> "1:05"]]], [dict |-> [title |-> [str |-> "Main"], start |-> [str |-> "1:05"], end |-> [str |-> "3:30"]]]>>], vocabulary_patterns |-> [list |-> <<[str |-> "as you can see"]>>], technical_terms |-> [list |-> <<[str |-> "lambda"]>>], persuasion_techniques |-> [list |-> <<[str |-> "Live demo"]>>], seo_keywords |-> [list |-> <<[str |-> "k01"], [str |-> "k02"], [str |-> "k03"], [str |-> "k04"], [str |-> "k05"], [str |-> "k06"], [str |-> "k07"], [str |-> "k08"], [str |-> "k09"], [str |-> "k10"], [str |-> "k11"]>>]]]]
      [] text = "{\"opening_hook\": \"Hello\", \"sections\": [{\"title\": \"Intro\", \"end\": \"45\"}]}" ->
            [raised |-> "none", value |-> [dict |-> [opening_hook |-> [str |-> "Hello"], sections |-> [list |-> <<[dict |-> [title |-> [str |-> "Intro"], end |-> [str |-> "45"]]]>>]]]]
      [] text = "{\"opening_hook\": \"Hello\"}" ->
            [raised |-> "none", value |-> [dict |-> [opening_hook |-> [str |-> "Hello"]]]]
      [] text = "{}" ->
            [raised |-> "none", value |-> [dict |-> <<>>]]
      [] text = "[1]" ->
            [raised |-> "none", value |-> [list |-> <<[int |-> 1]>>]]
      [] text = "{\"sections\": [{\"end\": 30}]}" ->
            [raised |-> "none", value |-> [dict |-> [sections |-> [list |-> <<[dict |-> [end |-> [int |-> 30]]]>>]]]]
      [] text = "{\"sections\": [{\"end\": \"soon\"}]}" ->
            [raised |-> "none", value |-> [dict |-> [sections |-> [list |-> <<[dict |-> [end |-> [str |-> "soon"]]]>>]]]]
      [] text = "{\"sections\": [{\"end\": \"1:xx\"}]}" ->
            [raised |-> "none", value |-> [dict |-> [sections |-> [list |-> <<[dict |-> [end |-> [str |-> "1:xx"]]]>>]]]]
      [] text = "{\"sections\": [{\"end\": \"1:02:03\"}]}" ->
            [raised |-> "none", value |-> [dict |-> [sections |-> [list |-> <<[dict |-> [end |-> [str |-> "1:02:03"]]]>>]]]]
      [] text = "{\"sections\": [{\"start\": \"0:00\", \"end\": \"0:00\"}]}" ->
            [raised |-> "none", value |-> [dict |-> [sections |-> [list |-> <<[dict |-> [start |-> [str |-> "0:00"], end |-> [str |-> "0:00"]]]>>]]]]
      [] text = "{\"sections\": [{\"title\": \"Intro\"}]}" ->
            [raised |-> "none", value |-> [dict |-> [sections |-> [list |-> <<[dict |-> [title |-> [str |-> "Intro"]]]>>]]]]
      [] text = "{\"sections\": {\"a\": 1}}" ->
            [raised |-> "none", value |-> [dict |-> [sections |-> [dict |-> [a |-> [int |-> 1]]]]]]
      [] text = "{\"opening_hook\": \"Hello\", \"ctas\": null}" ->
            [raised |-> "none", value |-> [dict |-> [opening_hook |-> [str |-> "Hello"], ctas |-> [null |-> TRUE]]]]
      [] text = "{\"ctas\": \"none\"}" ->
            [raised |-> "none", value |-> [dict |-> [ctas |-> [str |-> "none"]]]]
      [] text = "{\"persuasion_techniques\": null}" ->
            [raised |-> "none", value |-> [dict |-> [persuasion_techniques |-> [null |-> TRUE]]]]
      [] text = "{\"seo_keywords\": null}" ->
            [raised |-> "none", value |-> [dict |-> [seo_keywords |-> [null |-> TRUE]]]]
      [] text = "{\"opening_hook\": 5}" ->
            [raised |-> "none", value |-> [dict |-> [opening_hook |-> [int |-> 5]]]]
      [] text = "{\"opening_hook\": \"Hello\", \"technical_terms\": [5]}" ->
            [raised |-> "none", value |-> [dict |-> [opening_hook |-> [str |-> "Hello"], technical_terms |-> [list |-> <<[int |-> 5]>>]]]]
      [] text = "{\"opening_hook\": \"Hello\", \"seo_keywords\": [7]}" ->
            [raised |-> "none", value |-> [dict |-> [opening_hook |-> [str |-> "Hello"], seo_keywords |-> [list |-> <<[int |-> 7]>>]]]]
      [] OTHER -> [raised |-> "JSONDecodeError", value |-> [null |-> TRUE]]

(***************************************************************************)
(* pattern_analyzer.py: _parse_analysis_response and analyze.              *)
(* An analysis built from a response keeps the JSON values as they are:    *)
(* hook_text, hook_type, hook_effectiveness, sections, ctas and the word   *)
(* lists are tagged values; the fields the code computes are plain.        *)
(***************************************************************************)
StrList(strs) == [list |-> [i \in 1..Len(strs) |-> [str |-> strs[i]]]]
EmptyList == [list |-> <<>>]

ParsedVideoAnalysis(video, hook_end, hook_text, hook_type, hook_effectiveness, sections, ctas, technical_terms, common_phrases, transition_phrases, techniques, title_keywords, estimated_tags, raw_analysis) ==
    [video |-> video, hook_start |-> 0, hook_end |-> hook_end, hook_text |-> hook_text,
     hook_type |-> hook_type, hook_effectiveness |-> hook_effectiveness,
     intro_end |-> hook_end, sections |-> sections,
     conclusion_start |-> video.duration_seconds - 60, ctas |-> ctas,
     technical_terms |-> technical_terms, common_phrases |-> common_phrases,
     transition_phrases |-> transition_phrases, techniques |-> techniques,
     title_keywords |-> title_keywords, estimated_tags |-> estimated_tags,
     raw_analysis |-> raw_analysis,
     effectiveness_score |-> quality_score(video)]

\* A default whose conclusion starts at the very end of the video.
FallbackWithoutLastMinute(video, raw_analysis) ==
    [ParsedVideoAnalysis(video, 30, [str |-> ""], [str |-> "unknown"], [str |-> "unknown"],
                         EmptyList, EmptyList, EmptyList, EmptyList, EmptyList,
                         EmptyList, EmptyList, EmptyList, raw_analysis)
        EXCEPT !.conclusion_start = video.duration_seconds]

\* The record of lines 58-76 and 222-241, its fields tagged.
FallbackAnalysis(video, raw_analysis) ==
    ParsedVideoAnalysis(video, 30, [str |-> ""], [str |-> "unknown"], [str |-> "unknown"],
                        EmptyList, EmptyList, EmptyList, EmptyList, EmptyList,
                        EmptyList, EmptyList, EmptyList, raw_analysis)

\* A tagged value as the plain value of the synthesizer's model (a number
\* and null stay tagged; a CTA keeps its timestamp tagged, as CtaSeconds
\* reads it).
RECURSIVE Untag(_)
Untag(v) ==
    CASE IsStr(v) -> v.str
      [] IsList(v) -> [i \in 1..Len(v.list) |-> Untag(v.list[i])]
      [] IsDict(v) ->
            [k \in DOMAIN v.dict |->
                IF k = "timestamp" THEN v.dict[k] ELSE Untag(v.dict[k])]
      [] OTHER -> v

\* The items a for loop over a word list visits, each with its type.
WordItems(v) ==
    CASE IsList(v) -> v.list
      [] IsStr(v) -> [i \in 1..Len(v.str) |-> [str |-> CharAt(v.str, i)]]
      [] OTHER -> v

\* The analysis the synthesizer reads.
TypedAnalysis(a) ==
    [a EXCEPT !.hook_text = Untag(@), !.hook_type = Untag(@),
              !.hook_effectiveness = Untag(@), !.sections = Untag(@),
              !.ctas = Untag(@), !.technical_terms = WordItems(@),
              !.common_phrases = WordItems(@), !.transition_phrases = WordItems(@),
              !.techniques = Untag(@), !.title_keywords = WordItems(@),
              !.estimated_tags = WordItems(@)]

Returned(value) == [raised |-> "none", value |-> value]
Raised(exception) == [raised |-> exception, value |-> JsonNull]

\* "end" in first_section
HasEnd(first_section) ==
    CASE IsDict(first_section) -> Returned("end" \in DOMAIN first_section.dict)
      [] IsStr(first_section) -> Returned(Contains(first_section.str, "end"))
      [] IsList(first_section) ->
            Returned(\E i \in 1..Len(first_section.list) :
                        first_section.list[i] = [str |-> "end"])
      [] OTHER -> Raised("TypeError")

\* Lines 179-184: the end timestamp in seconds.
EndSeconds(end_str) ==
    CASE IsStr(end_str) ->
            IF HasColon(end_str.str)
            THEN LET parts == SplitColon(end_str.str)
                 IN  IF IsDigitString(parts[1]) /\ IsDigitString(parts[2])
                     THEN Returned(DigitsToInt(parts[1], 0) * 60 + DigitsToInt(parts[2], 0))
                     ELSE Raised("ValueError")
            ELSE IF IsDigitString(end_str.str)
                 THEN Returned(DigitsToInt(end_str.str, 0))
                 ELSE Returned(30)
      [] IsList(end_str) -> Raised("AttributeError")
      [] IsDict(end_str) -> Raised("AttributeError")
      [] OTHER -> Raised("TypeError")

\* Lines 171-184: hook_end from the first section, 30 without one.
parse_hook_end(sections) ==
    IF ~Truthy(sections) THEN Returned(30)
    ELSE CASE IsInt(sections) -> Raised("TypeError")
           [] IsDict(sections) -> Raised("KeyError")
           [] IsStr(sections) -> Returned(30)
           [] OTHER ->
                LET first_section == sections.list[1]
                    has_end == HasEnd(first_section)
                IN  IF has_end.raised # "none" THEN has_end
                    ELSE IF ~has_end.value THEN Returned(30)
                    ELSE IF ~IsDict(first_section) THEN Raised("TypeError")
                    ELSE EndSeconds(first_section.dict["end"])

\* The keys of a dict as a list (the model keeps no insertion order: the
\* order is a fixed arbitrary one).
RECURSIVE SetToSeq(_)
SetToSeq(S) ==
    IF S = {} THEN <<>>
    ELSE LET x == CHOOSE y \in S : TRUE IN <<x>> \o SetToSeq(S \ {x})

\* Lines 204-206: [{"name": t, "description": ""} for t in ...]
parse_techniques(v) ==
    CASE IsList(v) ->
            Returned([list |-> [i \in 1..Len(v.list) |->
                [dict |-> [name |-> v.list[i], description |-> [str |-> ""]]]]])
      [] IsStr(v) ->
            Returned([list |-> [i \in 1..Len(v.str) |->
                [dict |-> [name |-> [str |-> CharAt(v.str, i)],
                           description |-> [str |-> ""]]]]])
      [] IsDict(v) ->
            LET keys == SetToSeq(DOMAIN v.dict)
            IN  Returned([list |-> [i \in 1..Len(keys) |->
                    [dict |-> [name |-> [str |-> keys[i]],
                               description |-> [str |-> ""]]]]])
      [] OTHER -> Raised("TypeError")

\* Line 210: data.get("seo_keywords", [])[:10]
parse_estimated_tags(v) ==
    CASE IsList(v) -> Returned([list |-> Take(v.list, 10)])
      [] IsStr(v) -> Returned([str |-> Take(v.str, 10)])
      [] OTHER -> Raised("TypeError")

\* Lines 166-213: the analysis built from the parsed data, or the first
\* exception of the evaluation.
build_analysis(data, response_text, video) ==
    IF ~IsDict(data) THEN Raised("AttributeError")
    ELSE LET sections == JsonGet(data, "sections", EmptyList)
             hook_end == parse_hook_end(sections)
             techniques == parse_techniques(JsonGet(data, "persuasion_techniques", EmptyList))
             seo_keywords == JsonGet(data, "seo_keywords", EmptyList)
             estimated_tags == parse_estimated_tags(seo_keywords)
         IN  IF hook_end.raised # "none" THEN hook_end
             ELSE IF techniques.raised # "none" THEN techniques
             ELSE IF estimated_tags.raised # "none" THEN estimated_tags
             ELSE Returned(ParsedVideoAnalysis(video, hook_end.value,
                      JsonGet(data, "opening_hook", [str |-> ""]),
                      JsonGet(data, "hook_type", [str |-> "unknown"]),
                      JsonGet(data, "hook_effectiveness", [str |-> "unknown"]),
                      sections,
                      JsonGet(data, "ctas", EmptyList),
                      JsonGet(data, "technical_terms", EmptyList),
                      JsonGet(data, "vocabulary_patterns", EmptyList),
                      JsonGet(data, "transition_phrases", EmptyList),
                      techniques.value, seo_keywords, estimated_tags.value,
                      response_text))

\* _parse_analysis_response: json.JSONDecodeError and KeyError are caught
\* (lines 215-241), any other exception leaves the function.
parse_analysis_response(response_text, video) ==
    LET loaded == json_loads(clean_text(response_text))
        built == build_analysis(loaded.value, response_text, video)
    IN  IF loaded.raised # "none" THEN Returned(FallbackAnalysis(video, response_text))
        ELSE IF built.raised = "KeyError"
        THEN Returned(FallbackAnalysis(video, response_text))
        ELSE built

(***************************************************************************)
(* PatternAnalyzer.analyze as a state machine.  an_response is the object  *)
(* generate_content returned: [text |-> Some(t)], or [text |-> None] when  *)
(* reading response.text raises (a blocked response).                      *)
(***************************************************************************)
AnalyzeInputs ==
    {VideoTranscript(v, TranscribedText(v), Some("en")) :
        v \in {Video0, Video1, Video2, ShortVideo}}

\* analyze touches no other component.
AnFrame == UNCHANGED <<bp_vars, syn_vars, gen_vars, qs_vars, se_vars, qe_vars, pl_vars, tr_vars, va_vars>>

AnInit ==
    /\ an_transcript \in {Some(t) : t \in AnalyzeInputs}
    /\ an_pc = "start"
    /\ an_response = None
    /\ an_llm_calls = 0
    /\ an_result = None
    /\ an_raised = "none"

\* Lines 55-76: except Exception returns the empty analysis.
ReturnFallback ==
    /\ an_result' = Some(FallbackAnalysis(an_transcript[1].video, ""))
    /\ an_pc' = "done"
    /\ UNCHANGED an_raised

\* Line 47: generate_content raises.
AnalyzeLlmRaises ==
    /\ AnFrame
    /\ an_pc = "start"
    /\ an_llm_calls' = an_llm_calls + 1
    /\ ReturnFallback
    /\ UNCHANGED <<an_transcript, an_response>>

\* Line 47: generate_content returns a response.
AnalyzeLlmReturns ==
    /\ AnFrame
    /\ an_pc = "start"
    /\ an_llm_calls' = an_llm_calls + 1
    /\ \E text \in {Some(t) : t \in Responses} \cup {None} :
          an_response' = Some([text |-> text])
    /\ an_pc' = "parse"
    /\ UNCHANGED <<an_transcript, an_result, an_raised>>

\* Line 50: reading response.text raises.
AnalyzeTextRaises ==
    /\ AnFrame
    /\ an_pc = "parse"
    /\ an_response[1].text = None
    /\ ReturnFallback
    /\ UNCHANGED <<an_transcript, an_response, an_llm_calls>>

\* Lines 50-53: _parse_analysis_response returns an analysis.
AnalyzeParseReturns ==
    /\ AnFrame
    /\ an_pc = "parse"
    /\ an_response[1].text # None
    /\ LET parsed == parse_analysis_response(an_response[1].text[1], an_transcript[1].video)
       IN  /\ parsed.raised = "none"
           /\ an_result' = Some(parsed.value)
    /\ an_pc' = "done"
    /\ UNCHANGED <<an_transcript, an_response, an_llm_calls, an_raised>>

\* Line 50: _parse_analysis_response raises.
AnalyzeParseRaises ==
    /\ AnFrame
    /\ an_pc = "parse"
    /\ an_response[1].text # None
    /\ parse_analysis_response(an_response[1].text[1], an_transcript[1].video).raised # "none"
    /\ ReturnFallback
    /\ UNCHANGED <<an_transcript, an_response, an_llm_calls>>

AnNext ==
    \/ AnalyzeLlmRaises
    \/ AnalyzeLlmReturns
    \/ AnalyzeTextRaises
    \/ AnalyzeParseReturns
    \/ AnalyzeParseRaises

InitAnalyze == AnInit /\ BpIdle /\ SynIdle /\ GenIdle /\ QsIdle /\ SeIdle /\ QeIdle /\ PlIdle /\ TrIdle /\ VaIdle

SpecAnalyze == InitAnalyze /\ [][AnNext]_vars

(***************************************************************************)
(* Properties of analyze.                                                  *)
(***************************************************************************)
AnVideo == an_transcript[1].video
AnText == an_response[1].text[1]
HasText == an_response # None /\ an_response[1].text # None

\* The empty analysis of either failure path.
IsFallback(a) ==
    \/ a = FallbackAnalysis(AnVideo, "")
    \/ HasText /\ a = FallbackAnalysis(AnVideo, AnText)

IsStrList(v) == IsList(v) /\ \A i \in 1..Len(v.list) : IsStr(v.list[i])
IsStrDict(v) == IsDict(v) /\ \A k \in DOMAIN v.dict : IsStr(v.dict[k])
IsDictList(v) == IsList(v) /\ \A i \in 1..Len(v.list) : IsStrDict(v.list[i])

\* The shapes the prompt asks for: an object whose opening_hook, hook_type
\* and hook_effectiveness are strings, whose ctas and sections are lists of
\* objects of strings and whose other fields are lists of strings.
ExpectedShapes(data) ==
    /\ IsDict(data)
    /\ \A k \in DOMAIN data.dict :
          CASE k \in {"opening_hook", "hook_type", "hook_effectiveness", "pacing_notes"} ->
                  IsStr(data.dict[k])
            [] k \in {"ctas", "sections"} -> IsDictList(data.dict[k])
            [] k \in {"vocabulary_patterns", "technical_terms", "transition_phrases",
                      "persuasion_techniques", "seo_keywords"} -> IsStrList(data.dict[k])
            [] OTHER -> TRUE

LlmFailed == an_response = None \/ an_response[1].text = None
NotJson == HasText /\ json_loads(clean_text(AnText)).raised # "none"
UnexpectedShapes ==
    /\ HasText
    /\ json_loads(clean_text(AnText)).raised = "none"
    /\ ~ExpectedShapes(json_loads(clean_text(AnText)).value)

\* C4: analyze ends without an exception after exactly one LLM call, and
\* when the LLM call raised, the response is not JSON or the JSON has
\* unexpected field shapes, the analysis returned is the empty default of
\* the transcript's video.
C4_AnyFailureGivesDefault ==
    an_pc = "done" =>
        /\ an_raised = "none"
        /\ an_llm_calls = 1
        /\ an_result # None
        /\ LlmFailed \/ NotJson \/ UnexpectedShapes => IsFallback(an_result[1])

\* The part of C4 the code does satisfy: no exception, one call, and the
\* default whenever the call, the JSON parse or the building of the analysis
\* raised.
ParseRaised ==
    /\ HasText
    /\ json_loads(clean_text(AnText)).raised = "none"
    /\ build_analysis(json_loads(clean_text(AnText)).value, AnText, AnVideo).raised # "none"

C4_RaisedFailureGivesDefault ==
    /\ an_raised = "none"
    /\ an_llm_calls = (IF an_pc = "start" THEN 0 ELSE 1)
    /\ an_pc = "done" =>
          /\ an_result # None
          /\ LlmFailed \/ NotJson \/ ParseRaised => IsFallback(an_result[1])
          /\ TypedAnalysis(FallbackAnalysis(AnVideo, "")) = DefaultAnalysis(AnVideo, "")

C4_WitnessNullCtas ==
    /\ an_pc = "done"
    /\ HasText
    /\ AnText = CtasNullResponse
    /\ an_result[1].ctas = JsonNull
    /\ an_result[1].hook_text = [str |-> "Hello"]

C4_WitnessLlmRaised ==
    /\ an_pc = "done"
    /\ an_response = None
    /\ an_llm_calls = 1
    /\ an_result = Some(FallbackAnalysis(AnVideo, ""))

\* The analysis in hand is the one substituted on a failure path.
AnalysisFailed == an_pc = "done" /\ (LlmFailed \/ NotJson \/ ParseRaised)

\* The list fields are empty, the hook type and effectiveness are the
\* "unknown" sentinel, the hook starts at 0 with an empty text, and the
\* conclusion starts 60 seconds before the end of the video.
DefaultButHookEnd(a) ==
    /\ \A field \in {"sections", "ctas", "technical_terms", "common_phrases",
                      "transition_phrases", "techniques", "title_keywords",
                      "estimated_tags"} : a[field] = [list |-> <<>>]
    /\ a.hook_start = 0
    /\ a.hook_text = [str |-> ""]
    /\ a.hook_type = [str |-> "unknown"]
    /\ a.hook_effectiveness = [str |-> "unknown"]
    /\ a.conclusion_start = a.video.duration_seconds - 60
    /\ a.video = AnVideo

C22_WitnessLlmFailed ==
    /\ AnalysisFailed
    /\ LlmFailed
    /\ an_result[1].raw_analysis = ""
    /\ an_result[1].conclusion_start = AnVideo.duration_seconds - 60

\* The JSON object of the response in hand.
AnData == json_loads(clean_text(AnText)).value

ParsedAsObject ==
    /\ an_pc = "done"
    /\ HasText
    /\ json_loads(clean_text(AnText)).raised = "none"
    /\ IsDict(AnData)

\* The end of the first section, when there is one.
FirstEnd ==
    LET sections == JsonGet(AnData, "sections", EmptyList)
    IN  IF IsList(sections) /\ sections.list # <<>> /\ IsDict(sections.list[1])
           /\ "end" \in DOMAIN sections.list[1].dict
        THEN Some(sections.list[1].dict["end"])
        ELSE None

\* A timestamp of the form MM:SS.
IsMinutesSeconds(s) ==
    /\ Len(SplitColon(s)) = 2
    /\ IsDigitString(SplitColon(s)[1])
    /\ IsDigitString(SplitColon(s)[2])

\* The seconds of an end that is MM:SS or integer seconds, 30 otherwise.
HookEndOf(end) ==
    IF end = None THEN 30
    ELSE IF IsInt(end[1]) THEN end[1].int
    ELSE IF IsStr(end[1]) /\ IsDigitString(end[1].str) THEN DigitsToInt(end[1].str, 0)
    ELSE IF IsStr(end[1]) /\ IsMinutesSeconds(end[1].str)
         THEN DigitsToInt(SplitColon(end[1].str)[1], 0) * 60
              + DigitsToInt(SplitColon(end[1].str)[2], 0)
    ELSE 30

\* The hook window of the claim, the parsed hook text and sections kept.
HookWindowKept ==
    /\ an_result[1].hook_start = 0
    /\ an_result[1].hook_end = HookEndOf(FirstEnd)
    /\ an_result[1].hook_text = JsonGet(AnData, "opening_hook", [str |-> ""])
    /\ an_result[1].sections = JsonGet(AnData, "sections", EmptyList)

\* C23: for every response that parses as JSON the analysis has
\* hook_start = 0 and hook_end the end of the first section in seconds when
\* that end is MM:SS or integer seconds, 30 in every other case, the other
\* parsed fields being kept.
C23_HookEndFromFirstSection == ParsedAsObject => HookWindowKept

\* The end is absent, or a string that is MM:SS, only digits, or free of
\* ':'.
EndIsPlain ==
    \/ FirstEnd = None
    \/ /\ IsStr(FirstEnd[1])
       /\ \/ IsMinutesSeconds(FirstEnd[1].str)
          \/ ~HasColon(FirstEnd[1].str)

\* C23, the part that holds: the same for the responses of the expected
\* shapes whose first end is absent, MM:SS, digits, or a string without ':'.
C23_HookEndWhenEndIsPlain ==
    (ParsedAsObject /\ ExpectedShapes(AnData) /\ EndIsPlain) => HookWindowKept

C23_WitnessMinutesSeconds ==
    /\ ParsedAsObject
    /\ FirstEnd = Some([str |-> "1:05"])
    /\ an_result[1].hook_end = 65

C23_WitnessBadColon ==
    /\ ParsedAsObject
    /\ FirstEnd = Some([str |-> "1:xx"])
    /\ an_result[1].sections = EmptyList

(***************************************************************************)
(* Text operations of script_generator.py.                                 *)
(***************************************************************************)
\* str.find: the first position of part in s, 0 when there is none.
Find(s, part) ==
    LET at == {i \in 1..(Len(s) - Len(part) + 1) : SubSeq(s, i, i + Len(part) - 1) = part}
    IN  IF at = {} THEN 0 ELSE CHOOSE i \in at : \A j \in at : i <= j

\* str.split(sep)
RECURSIVE SplitOn(_, _)
SplitOn(s, sep) ==
    LET i == Find(s, sep)
    IN  IF i = 0 THEN <<s>>
        ELSE <<SubSeq(s, 1, i - 1)>> \o SplitOn(SubSeq(s, i + Len(sep), Len(s)), sep)

\* sep.join(parts)
RECURSIVE Join(_, _)
Join(parts, sep) ==
    IF parts = <<>> THEN ""
    ELSE IF Len(parts) = 1 THEN parts[1]
    ELSE parts[1] \o sep \o Join(Tail(parts), sep)

\* str.replace(old, "")
Remove(s, old) == Join(SplitOn(s, old), "")

\* str.count(part)
Count(s, part) == Len(SplitOn(s, part)) - 1

\* str.strip("#")
RECURSIVE StripHashes(_)
StripHashes(s) ==
    IF Len(s) > 0 /\ CharAt(s, 1) = "#" THEN StripHashes(SubSeq(s, 2, Len(s)))
    ELSE IF Len(s) > 0 /\ CharAt(s, Len(s)) = "#" THEN StripHashes(SubSeq(s, 1, Len(s) - 1))
    ELSE s

\* len(s.split()): the number of whitespace-separated words.
WordCount(s) ==
    Cardinality({i \in 1..Len(s) :
        ~IsSpace(CharAt(s, i)) /\ (i = 1 \/ IsSpace(CharAt(s, i - 1)))})

\* str.lower() (of the unaccented letters)
RECURSIVE Lower(_)
Lower(s) == IF Len(s) = 0 THEN "" ELSE ToLower(CharAt(s, 1)) \o Lower(SubSeq(s, 2, Len(s)))

\* str(n) of a natural number
RECURSIVE IntToStr(_)
IntToStr(n) ==
    IF n < 10 THEN Digits[n + 1]
    ELSE IntToStr(n \div 10) \o Digits[(n % 10) + 1]

\* round(n / d) of non-negative integers: nearest, ties to even.
RoundDiv(n, d) ==
    LET q == n \div d
        r == n % d
    IN  IF 2 * r < d THEN q
        ELSE IF 2 * r > d THEN q + 1
        ELSE IF q % 2 = 0 THEN q ELSE q + 1

(***************************************************************************)
(* script_generator.py: the parsing of the generated script.               *)
(***************************************************************************)
WORDS_PER_MINUTE == 150

TitleMarkers == <<"**TÍTULO**:", "TÍTULO:", "# ">>

\* Lines 293-297: the cleaned line after line i.
TitleAfter(lines, i) == Strip(StripHashes(Remove(Remove(Strip(lines[i + 1]), "["), "]")))

\* Lines 287-298: the (marker, line) pairs, in loop order, that return.
TitleHits(script_text) ==
    LET lines == SplitOn(script_text, "\n")
    IN  {<<m, i>> \in (1..Len(TitleMarkers)) \X (1..(Len(lines) - 1)) :
            /\ Contains(lines[i], TitleMarkers[m])
            /\ Len(TitleAfter(lines, i)) > 10}

\* f"{v}" of a word of the synthesis: a string or a natural number.
FormatValue(v) == IF IsStr(v) THEN v.str ELSE IntToStr(v.int)

\* _extract_seo_title
extract_seo_title(script_text, user_idea, synthesis) ==
    LET lines == SplitOn(script_text, "\n")
        hits == TitleHits(script_text)
        headings == {i \in 1..Len(lines) : StartsWith(lines[i], "# ")}
        keywords == synthesis.seo_patterns.title_keywords
    IN  IF hits # {}
        THEN LET first == CHOOSE h \in hits :
                     \A g \in hits : h[1] < g[1] \/ (h[1] = g[1] /\ h[2] <= g[2])
             IN  Take(TitleAfter(lines, first[2]), 70)
        ELSE IF headings # {}
        THEN LET i == CHOOSE h \in headings : \A g \in headings : h <= g
             IN  Take(Strip(StripHashes(lines[i])), 70)
        ELSE IF keywords # <<>> /\ Truthy(keywords[1].keyword)
        THEN Take(FormatValue(keywords[1].keyword) \o " - " \o user_idea, 70)
        ELSE Take(user_idea, 70)

\* Lines 340-345: the intro lines collected until their joined length
\* exceeds 150.
RECURSIVE IntroLines(_, _)
IntroLines(lines, acc) ==
    IF lines = <<>> THEN acc
    ELSE LET line == Head(lines)
         IN  IF Strip(line) # "" /\ ~StartsWith(line, "#") /\ ~StartsWith(line, "[")
             THEN LET acc1 == Append(acc, Strip(line))
                  IN  IF Len(Join(acc1, " ")) > 150 THEN acc1
                      ELSE IntroLines(Tail(lines), acc1)
             ELSE IntroLines(Tail(lines), acc)

\* _extract_seo_description
extract_seo_description(script_text, user_idea, synthesis) ==
    LET parts == SplitOn(script_text, "**DESCRIPCIÓN**:")
        desc == IF Len(parts) > 1
                THEN Take(Strip(SplitOn(SplitOn(parts[2], "**TAGS**")[1], "---")[1]), 500)
                ELSE ""
        lines == SplitOn(script_text, "\n")
        intro_lines == IntroLines(SubSeq(lines, 6, Min(20, Len(lines))), <<>>)
    IN  IF Len(desc) > 50 THEN desc
        ELSE IF intro_lines # <<>> THEN Take(Join(intro_lines, " "), 500)
        ELSE "Video sobre " \o user_idea \o ". Basado en análisis de "
             \o IntToStr(synthesis.num_videos_analyzed) \o " videos exitosos."

\* Lines 378-382: the first occurrence of each tag, compared in lower case.
RECURSIVE UniqueTags(_, _, _)
UniqueTags(tags, seen, acc) ==
    IF tags = <<>> THEN acc
    ELSE IF Lower(Head(tags)) \in seen THEN UniqueTags(Tail(tags), seen, acc)
    ELSE UniqueTags(Tail(tags), seen \cup {Lower(Head(tags))}, Append(acc, Head(tags)))

\* _extract_seo_tags: the tags, or AttributeError when a keyword of the
\* synthesis is not a string (tag.lower()).
extract_seo_tags(script_text, synthesis) ==
    LET parts == SplitOn(script_text, "**TAGS**:")
        raw == IF Len(parts) > 1
               THEN SplitOn(SplitOn(SplitOn(parts[2], "---")[1], "\n")[1], ",")
               ELSE <<>>
        stripped == [i \in 1..Len(raw) |-> Strip(raw[i])]
        LongEnough(t) == Len(t) > 2
        marked == SelectSeq(stripped, LongEnough)
        keywords == Take(synthesis.seo_patterns.title_keywords, 15)
        estimated == Take(synthesis.seo_patterns.estimated_tags, 10)
        tags == [i \in 1..Len(keywords) |-> keywords[i].keyword]
                \o [i \in 1..Len(estimated) |-> estimated[i].tag]
    IN  IF marked # <<>> THEN Returned(Take(marked, 20))
        ELSE IF \E i \in 1..Len(tags) : ~IsStr(tags[i]) THEN Raised("AttributeError")
        ELSE Returned(Take(UniqueTags([i \in 1..Len(tags) |-> tags[i].str], {}, <<>>), 20))

\* An estimate whose second tag bonus replaces the first instead of adding to
\* it, and whose length bands leave out 500 and 2000.
estimate_with_exclusive_bands(script_text, word_count, seo_title, seo_tags) ==
    LET section_count == Count(script_text, "##")
        score == 50
            + (IF 500 < word_count /\ word_count < 2000 THEN 20
               ELSE IF (300 <= word_count /\ word_count < 500)
                       \/ (2000 < word_count /\ word_count <= 3000) THEN 10
               ELSE 0)
            + (IF Contains(script_text, "[00:00]") \/ Contains(script_text, "[0:00]")
               THEN 5 ELSE 0)
            + (IF Contains(script_text, "##") THEN 5 ELSE 0)
            + (IF 3 <= section_count /\ section_count <= 7 THEN 5 ELSE 0)
            + (IF seo_title # "" /\ Len(seo_title) >= 20 THEN 5 ELSE 0)
            + (IF Len(seo_tags) >= 15 THEN 10 ELSE IF Len(seo_tags) >= 10 THEN 5 ELSE 0)
    IN  Min(100, Max(1, score))

\* _estimate_quality_score
estimate_quality_score(script_text, word_count, seo_title, seo_tags) ==
    LET section_count == Count(script_text, "##")
        score == 50
            + (IF 500 <= word_count /\ word_count <= 2000 THEN 20
               ELSE IF (300 <= word_count /\ word_count < 500)
                       \/ (2000 < word_count /\ word_count <= 3000) THEN 10
               ELSE 0)
            + (IF Contains(script_text, "[00:00]") \/ Contains(script_text, "[0:00]")
               THEN 5 ELSE 0)
            + (IF Contains(script_text, "##") THEN 5 ELSE 0)
            + (IF 3 <= section_count /\ section_count <= 7 THEN 5 ELSE 0)
            + (IF seo_title # "" /\ Len(seo_title) >= 20 THEN 5 ELSE 0)
            + (IF Len(seo_tags) >= 10 THEN 5 ELSE 0)
            + (IF Len(seo_tags) >= 15 THEN 5 ELSE 0)
    IN  Min(100, Max(1, score))

MarkdownFence == "~~~markdown"

\* _parse_script_response: the script data, or the exception raised.
parse_script_response(response_text, user_idea, synthesis) ==
    LET c0 == Strip(response_text)
        c1 == IF StartsWith(c0, MarkdownFence) THEN DropFirst(c0, 11) ELSE c0
        c2 == IF StartsWith(c1, Fence) THEN DropFirst(c1, 3) ELSE c1
        c3 == IF EndsWith(c2, Fence) THEN DropLast(c2, 3) ELSE c2
        clean == Strip(c3)
        seo_title == extract_seo_title(clean, user_idea, synthesis)
        seo_tags == extract_seo_tags(clean, synthesis)
        word_count == WordCount(clean)
    IN  IF seo_tags.raised # "none" THEN seo_tags
        ELSE Returned(
            [script_markdown |-> clean,
             word_count |-> word_count,
             estimated_duration_minutes |-> Max(1, RoundDiv(word_count, WORDS_PER_MINUTE)),
             seo_title |-> seo_title,
             seo_description |-> extract_seo_description(clean, user_idea, synthesis),
             seo_tags |-> seo_tags.value,
             estimated_quality_score |->
                 estimate_quality_score(clean, word_count, seo_title, seo_tags.value)])

(***************************************************************************)
(* script_generator.py: the prompt, the fallback script and generate.      *)
(***************************************************************************)
\* _create_generation_prompt: the exception it raises, "none" without one.
\* ", ".join(key_terms) and ", ".join(key_phrases) raise TypeError on an
\* item that is not a string; every other value is only formatted.
create_generation_prompt(synthesis) ==
    LET terms == Take(synthesis.key_vocabulary.technical_terms, 10)
        phrases == Take(synthesis.key_vocabulary.common_phrases, 5)
    IN  IF \/ \E i \in 1..Len(terms) : ~IsStr(terms[i].term)
           \/ \E i \in 1..Len(phrases) : ~IsStr(phrases[i].phrase)
        THEN "TypeError"
        ELSE "none"

\* The template of _create_fallback_script.
FallbackScriptText(user_idea, top_hook, target_words, num_videos) ==
    "# " \o user_idea \o "\n\n## [00:00] HOOK\n" \o top_hook
    \o "\n\n## [00:15] INTRODUCCIÓN\nEn este video vamos a explorar " \o user_idea
    \o ".\n\n## [01:00] CONTENIDO PRINCIPAL\n[Desarrolla el tema aquí - aproximadamente "
    \o IntToStr(target_words) \o " palabras]\n\n## [XX:XX] CONCLUSIÓN\n"
    \o "Eso es todo por hoy. ¡Gracias por ver!\n\n---\n\n"
    \o "**Nota**: Este es un guion básico generado automáticamente.\n"
    \o "Basado en análisis de " \o IntToStr(num_videos) \o " videos exitosos.\n"

Greeting == "¡Bienvenidos!"

GeneratedScript(user_idea, script_markdown, estimated_duration_minutes, word_count, seo_title, seo_description, seo_tags, synthesis, estimated_quality_score) ==
    [user_idea |-> user_idea, script_markdown |-> script_markdown,
     estimated_duration_minutes |-> estimated_duration_minutes,
     word_count |-> word_count, seo_title |-> seo_title,
     seo_description |-> seo_description, seo_tags |-> seo_tags,
     synthesis_used |-> synthesis.topic,
     num_reference_videos |-> synthesis.num_videos_analyzed,
     cost_usd |-> 0, estimated_quality_score |-> estimated_quality_score]

\* _create_fallback_script
create_fallback_script(user_idea, synthesis, duration_minutes) ==
    LET target_words == duration_minutes * WORDS_PER_MINUTE
        top_hook == IF synthesis.top_hooks # <<>>
                    THEN Take(synthesis.top_hooks[1].text, 150)
                    ELSE Greeting
        script == FallbackScriptText(user_idea, top_hook, target_words,
                                     synthesis.num_videos_analyzed)
    IN  GeneratedScript(user_idea, script, duration_minutes, WordCount(script),
                        Take(user_idea, 70), "Video sobre " \o user_idea,
                        <<"tutorial", "guía", "español">>, synthesis, 50)

(***************************************************************************)
(* Inputs of generate: syntheses the synthesizer builds, ideas, durations  *)
(* and the texts Gemini answers with.                                      *)
(***************************************************************************)
SynthesisOf(topic, analyses) ==
    PatternSynthesis(topic, analyses, Aggregates(analyses), LlmReport)

\* Two analyses with a hook; the longer hook is on the higher scoring video.
HookedSynthesis ==
    SynthesisOf("Python Tutorials",
        <<TestAnalysis(Video0, 15, "Hook example", 540, <<LikeCta>>),
          TestAnalysis(Video2, 15, LongHookText, 540, <<>>)>>)

\* One failure-default analysis: no hook at all.
HooklessSynthesis == SynthesisOf("Python Tutorials", <<DefaultAnalysis(Video1, "")>>)

\* What analyze and synthesize make of a response whose technical_terms or
\* seo_keywords hold a number.
AnalysisOf(response_text, video) ==
    TypedAnalysis(parse_analysis_response(response_text, video).value)

NumericTermsSynthesis ==
    SynthesisOf("Python Tutorials", <<AnalysisOf(NumericTermsResponse, Video1)>>)

NumericKeywordsSynthesis ==
    SynthesisOf("Python Tutorials", <<AnalysisOf(NumericKeywordsResponse, Video1)>>)

GenSyntheses ==
    {HookedSynthesis, HooklessSynthesis, NumericTermsSynthesis, NumericKeywordsSynthesis}

LongIdea ==
    "How to write Python decorators that keep the signature of the function they wrap"

UserIdeas == {"", "   ", "Python decorators", LongIdea}

Durations == {1, 10}

FullScript ==
    "# Decorators in Python\n\n## [00:00] HOOK\nDid you know?\n\n## [00:15] INTRO\nWelcome.\n\n"
    \o "## [01:00] SECTION 1\nContent.\n\n---\n\n**TÍTULO**:\nPython Decorators Explained Simply\n\n"
    \o "**DESCRIPCIÓN**:\nLearn decorators step by step with clear examples and practical tips.\n\n"
    \o "**TAGS**: python, decorators, tutorial, py, functions\n"

FencedScript == "~~~markdown\n# Decorators\n\n## [0:00] Hook\nHi there\n~~~"

PlainScript == "Just some text without any structure."

ScriptResponses == {FullScript, FencedScript, PlainScript, ""}

(***************************************************************************)
(* ScriptGenerator.generate as a state machine.  gen_response is the       *)
(* object generate_content returned, as in analyze.                        *)
(***************************************************************************)
\* generate touches no other component.
GenFrame == UNCHANGED <<bp_vars, an_vars, syn_vars, qs_vars, se_vars, qe_vars, pl_vars, tr_vars, va_vars>>

GenInit ==
    /\ gen_input \in
         {Some([synthesis |-> s, user_idea |-> u, duration_minutes |-> d]) :
             s \in GenSyntheses, u \in UserIdeas, d \in Durations}
    /\ gen_pc = "start"
    /\ gen_llm_calls = 0
    /\ gen_response = None
    /\ gen_result = None
    /\ gen_raised = "none"

\* not user_idea or not user_idea.strip()
IsBlank(user_idea) == user_idea = "" \/ Strip(user_idea) = ""

\* Lines 64-65: raise ValueError on a blank idea.
GenerateBlankIdea ==
    /\ GenFrame
    /\ gen_pc = "start"
    /\ IsBlank(gen_input[1].user_idea)
    /\ gen_raised' = "ValueError"
    /\ gen_pc' = "raised"
    /\ UNCHANGED <<gen_input, gen_llm_calls, gen_response, gen_result>>

\* Lines 70-75: the prompt is built, outside the try statement.
GeneratePrompt ==
    /\ GenFrame
    /\ gen_pc = "start"
    /\ ~IsBlank(gen_input[1].user_idea)
    /\ create_generation_prompt(gen_input[1].synthesis) = "none"
    /\ gen_pc' = "call"
    /\ UNCHANGED <<gen_input, gen_llm_calls, gen_response, gen_result, gen_raised>>

\* Lines 70-75: building the prompt raises, and the exception leaves generate.
GeneratePromptRaises ==
    /\ GenFrame
    /\ gen_pc = "start"
    /\ ~IsBlank(gen_input[1].user_idea)
    /\ create_generation_prompt(gen_input[1].synthesis) # "none"
    /\ gen_raised' = create_generation_prompt(gen_input[1].synthesis)
    /\ gen_pc' = "raised"
    /\ UNCHANGED <<gen_input, gen_llm_calls, gen_response, gen_result>>

\* Lines 102-105: except Exception returns the fallback script.
ReturnFallbackScript ==
    /\ gen_result' = Some(create_fallback_script(gen_input[1].user_idea,
                              gen_input[1].synthesis, gen_input[1].duration_minutes))
    /\ gen_pc' = "done"
    /\ UNCHANGED gen_raised

\* Line 79: generate_content raises.
GenerateLlmRaises ==
    /\ GenFrame
    /\ gen_pc = "call"
    /\ gen_llm_calls' = gen_llm_calls + 1
    /\ ReturnFallbackScript
    /\ UNCHANGED <<gen_input, gen_response>>

\* Line 79: generate_content returns a response.
GenerateLlmReturns ==
    /\ GenFrame
    /\ gen_pc = "call"
    /\ gen_llm_calls' = gen_llm_calls + 1
    /\ \E text \in {Some(t) : t \in ScriptResponses} \cup {None} :
          gen_response' = Some([text |-> text])
    /\ gen_pc' = "parse"
    /\ UNCHANGED <<gen_input, gen_result, gen_raised>>

\* Line 80: reading response.text raises.
GenerateTextRaises ==
    /\ GenFrame
    /\ gen_pc = "parse"
    /\ gen_response[1].text = None
    /\ ReturnFallbackScript
    /\ UNCHANGED <<gen_input, gen_llm_calls, gen_response>>

\* The script data of the response in hand.
ScriptData ==
    parse_script_response(Strip(gen_response[1].text[1]), gen_input[1].user_idea,
                          gen_input[1].synthesis)

\* Lines 80-100: the response is parsed and the record returned.
GenerateParsed ==
    /\ GenFrame
    /\ gen_pc = "parse"
    /\ gen_response[1].text # None
    /\ ScriptData.raised = "none"
    /\ LET d == ScriptData.value
       IN  gen_result' = Some(GeneratedScript(gen_input[1].user_idea, d.script_markdown,
                                  d.estimated_duration_minutes, d.word_count, d.seo_title,
                                  d.seo_description, d.seo_tags, gen_input[1].synthesis,
                                  d.estimated_quality_score))
    /\ gen_pc' = "done"
    /\ UNCHANGED <<gen_input, gen_llm_calls, gen_response, gen_raised>>

\* Line 83: _parse_script_response raises.
GenerateParseRaises ==
    /\ GenFrame
    /\ gen_pc = "parse"
    /\ gen_response[1].text # None
    /\ ScriptData.raised # "none"
    /\ ReturnFallbackScript
    /\ UNCHANGED <<gen_input, gen_llm_calls, gen_response>>

GenNext ==
    \/ GenerateBlankIdea
    \/ GeneratePrompt
    \/ GeneratePromptRaises
    \/ GenerateLlmRaises
    \/ GenerateLlmReturns
    \/ GenerateTextRaises
    \/ GenerateParsed
    \/ GenerateParseRaises

InitGen == GenInit /\ BpIdle /\ AnIdle /\ SynIdle /\ QsIdle /\ SeIdle /\ QeIdle /\ PlIdle /\ TrIdle /\ VaIdle

SpecGen == InitGen /\ [][GenNext]_vars

(***************************************************************************)
(* Properties of generate.                                                 *)
(***************************************************************************)
GenIdea == gen_input[1].user_idea

GenSynthesis == gen_input[1].synthesis

GenStarted == gen_input # None

\* generate_content raised, reading response.text raised, or
\* _parse_script_response raised.
GenFailed ==
    /\ gen_llm_calls = 1
    /\ \/ gen_response = None
       \/ gen_response[1].text = None
       \/ ScriptData.raised # "none"

\* The hook the template opens with: the top hook of the synthesis cut at
\* 150 characters, the greeting when the synthesis has no hook.
TemplateHook ==
    IF Len(GenSynthesis.top_hooks) = 0 THEN Greeting
    ELSE SubSeq(GenSynthesis.top_hooks[1].text, 1,
                Min(150, Len(GenSynthesis.top_hooks[1].text)))

\* The result is the basic template script.
IsTemplateScript ==
    /\ gen_result # None
    /\ gen_result[1].script_markdown =
          FallbackScriptText(GenIdea, TemplateHook,
                             gen_input[1].duration_minutes * WORDS_PER_MINUTE,
                             GenSynthesis.num_videos_analyzed)
    /\ gen_result[1].synthesis_used = GenSynthesis.topic
    /\ gen_result[1].estimated_quality_score = 50
    /\ gen_result[1].user_idea = GenIdea

\* A failure of the LLM call or of the handling of its response ends in the
\* template script.
FailureGivesTemplate ==
    (gen_pc = "done" /\ GenFailed) => IsTemplateScript

\* C10: generate with a non-blank user_idea never raises, and when the LLM
\* call fails or the handling of its response raises it returns the basic
\* template script built from the top hook of the synthesis (the greeting
\* when top_hooks is empty), with synthesis_used the topic of the synthesis
\* and estimated_quality_score 50.
C10_NonBlankIdeaNeverRaises ==
    (GenStarted /\ ~IsBlank(GenIdea)) =>
        /\ gen_raised = "none"
        /\ gen_pc # "raised"
        /\ FailureGivesTemplate

\* The vocabulary of the synthesis holds strings only, so the prompt can be
\* joined.
StringVocabulary ==
    /\ \A i \in DOMAIN GenSynthesis.key_vocabulary.technical_terms :
          IsStr(GenSynthesis.key_vocabulary.technical_terms[i].term)
    /\ \A i \in DOMAIN GenSynthesis.key_vocabulary.common_phrases :
          IsStr(GenSynthesis.key_vocabulary.common_phrases[i].phrase)

\* What holds of C10: with a non-blank idea and a synthesis whose vocabulary
\* holds strings only, generate never raises, calls the LLM at most once, and
\* every failure from the LLM call on ends in the template script.
C10_StringVocabularyNeverRaises ==
    (GenStarted /\ ~IsBlank(GenIdea) /\ StringVocabulary) =>
        /\ gen_raised = "none"
        /\ gen_pc # "raised"
        /\ gen_llm_calls <= 1
        /\ FailureGivesTemplate

\* The LLM call raised for a synthesis with hooks: the template opens with
\* the top hook cut at 150 characters.
C10_WitnessHookTemplate ==
    /\ GenStarted
    /\ gen_pc = "done"
    /\ gen_response = None
    /\ Len(GenSynthesis.top_hooks) > 0
    /\ Len(GenSynthesis.top_hooks[1].text) > 150
    /\ IsTemplateScript

\* The handling of the response raised for a synthesis without hooks: the
\* template opens with the greeting.
C10_WitnessGreetingTemplate ==
    /\ GenStarted
    /\ gen_pc = "done"
    /\ gen_response # None
    /\ GenFailed
    /\ Len(GenSynthesis.top_hooks) = 0
    /\ IsTemplateScript

\* The exception of the prompt leaves generate before any LLM call.
C10_WitnessPromptRaised ==
    /\ GenStarted
    /\ ~IsBlank(GenIdea)
    /\ gen_raised = "TypeError"
    /\ gen_llm_calls = 0

\* max(1, round(word_count / 150)) of the returned script text.
DurationOfText == Max(1, RoundDiv(WordCount(gen_result[1].script_markdown), WORDS_PER_MINUTE))

\* C26: in the record generate returns, word_count is the number of
\* whitespace-separated words of the script text and
\* estimated_duration_minutes is round(word_count / 150), at least 1.
C26_WordCountAndDurationFromText ==
    gen_result # None =>
        /\ gen_result[1].word_count = WordCount(gen_result[1].script_markdown)
        /\ gen_result[1].estimated_duration_minutes = DurationOfText

\* The part of C26 that holds: word_count is always counted on the returned
\* text, and the duration is derived from it when the response was parsed.
C26_WordCountFromText ==
    gen_result # None =>
        /\ gen_result[1].word_count = WordCount(gen_result[1].script_markdown)
        /\ ~GenFailed => gen_result[1].estimated_duration_minutes = DurationOfText

\* The template script of a ten minute request: its duration is the
\* requested one, not the one of its text.
C26_WitnessTemplateDuration ==
    /\ gen_pc = "done"
    /\ GenFailed
    /\ gen_input[1].duration_minutes = 10
    /\ gen_result[1].estimated_duration_minutes = 10
    /\ DurationOfText = 1

\* A parsed response.
C26_WitnessParsed ==
    /\ gen_pc = "done"
    /\ ~GenFailed
    /\ gen_result[1].word_count > 10
    /\ gen_result[1].estimated_duration_minutes = 1

(***************************************************************************)
(* models.py: YouTubeVideo.quality_score evaluated on one record while the *)
(* clock runs.  quality_score is a property: each access computes it anew  *)
(* and reads datetime.now().year.                                          *)
(***************************************************************************)
MaxEvaluations == 2
MaxYearsPassed == 1

\* Records with non-negative integer view count and duration.
ScoredVideos ==
    {YouTubeVideo("vid", "Title", secs, views, date, likes, pref) :
        secs \in {0, 540, 900, 1261, 3600},
        views \in {0, 250, 50000, 100000, 2000000},
        date \in {"", "unknown", "20", "-100", "19990101", "20240101", "20260101",
                  "20270101", "99991231"},
        likes \in {None, Some(0)},
        pref \in {None, Some(0), Some(10)}}

QsFrame == UNCHANGED <<bp_vars, an_vars, syn_vars, gen_vars, se_vars, qe_vars, pl_vars, tr_vars, va_vars>>

QsInit ==
    /\ qs_video \in {Some(v) : v \in ScoredVideos}
    /\ qs_year = CurrentYear
    /\ qs_scores = <<>>

\* One access of video.quality_score.
EvaluateQualityScore ==
    /\ QsFrame
    /\ Len(qs_scores) < MaxEvaluations
    /\ qs_scores' = Append(qs_scores,
                           [year |-> qs_year,
                            score |-> quality_score_at(qs_video[1], qs_year)])
    /\ UNCHANGED <<qs_video, qs_year>>

\* The year of datetime.now() changes between two accesses.
YearPasses ==
    /\ QsFrame
    /\ qs_year < CurrentYear + MaxYearsPassed
    /\ qs_year' = qs_year + 1
    /\ UNCHANGED <<qs_video, qs_scores>>

QsNext ==
    \/ EvaluateQualityScore
    \/ YearPasses

InitScore == QsInit /\ BpIdle /\ AnIdle /\ SynIdle /\ GenIdle /\ SeIdle /\ QeIdle /\ PlIdle /\ TrIdle /\ VaIdle

SpecScore == InitScore /\ [][QsNext]_vars

(***************************************************************************)
(* Properties of quality_score.                                            *)
(***************************************************************************)
\* C12: quality_score lies in [0, 5] (0 to 500 hundredths) for every record
\* whose view count and duration are non-negative integers, whatever its
\* upload date string, like count and duration preference.
C12_ScoreWithinZeroToFive ==
    \A i \in 1..Len(qs_scores) : 0 <= qs_scores[i].score /\ qs_scores[i].score <= 500

\* The upload year read from the record is after the year of the clock.
UploadedAfter(v, year) ==
    /\ IsIntLiteral(Take(v.upload_date, 4))
    /\ IntOf(Take(v.upload_date, 4)) > year

\* What holds of C12: the score is within [1.5, 5] unless the upload year is
\* after the current year.
C12_ScoreWithinRangeForPastUploads ==
    \A i \in 1..Len(qs_scores) :
        ~UploadedAfter(qs_video[1], qs_scores[i].year) =>
            150 <= qs_scores[i].score /\ qs_scores[i].score <= 500

\* The best record uploaded in the current year scores exactly 5.
C12_WitnessTopScore ==
    /\ Len(qs_scores) > 0
    /\ ~UploadedAfter(qs_video[1], qs_scores[1].year)
    /\ qs_scores[1].score = 500

\* C13: quality_score is a pure function of the record's fields: any two
\* evaluations on records with identical field values return the identical
\* score, whenever each evaluation takes place.
C13_SameFieldsSameScore ==
    \A i, j \in 1..Len(qs_scores) : qs_scores[i].score = qs_scores[j].score

\* What holds of C13: two evaluations in the same year return the same
\* score.
C13_SameFieldsAndYearSameScore ==
    \A i, j \in 1..Len(qs_scores) :
        qs_scores[i].year = qs_scores[j].year => qs_scores[i].score = qs_scores[j].score

\* Two evaluations of one record in the same year.
C13_WitnessSameYear ==
    /\ Len(qs_scores) = 2
    /\ qs_scores[1].year = qs_scores[2].year

(***************************************************************************)
(* youtube_searcher.py: the lines yt-dlp prints, one JSON object per       *)
(* candidate, and what json.loads makes of each.                           *)
(***************************************************************************)
TenMinuteLine ==
    "{\"id\": \"a\", \"title\": \"Ta\", \"duration\": 600, \"view_count\": 50000, \"upload_date\": \"20240101\"}"

TiedLine ==
    "{\"id\": \"b\", \"title\": \"Tb\", \"duration\": 660, \"view_count\": 50000, \"upload_date\": \"20240101\"}"

FiveMinuteLine ==
    "{\"id\": \"c\", \"title\": \"Tc\", \"duration\": 300, \"view_count\": 100000, \"upload_date\": \"20250101\", \"like_count\": 5}"

FortyFiveMinuteLine ==
    "{\"id\": \"d\", \"title\": \"Td\", \"duration\": 2700, \"view_count\": 100000, \"upload_date\": \"20240101\"}"

TooShortLine ==
    "{\"id\": \"e\", \"title\": \"Te\", \"duration\": 299, \"view_count\": 2000000, \"upload_date\": \"20260101\", \"like_count\": 9}"

TooLongLine ==
    "{\"id\": \"f\", \"title\": \"Tf\", \"duration\": 2701, \"view_count\": 2000000, \"upload_date\": \"20260101\", \"like_count\": 9}"

NoDurationLine ==
    "{\"id\": \"g\", \"title\": \"Tg\", \"view_count\": 2000000, \"upload_date\": \"20260101\"}"

NullDurationLine ==
    "{\"id\": \"h\", \"title\": \"Th\", \"duration\": null, \"view_count\": 2000000, \"upload_date\": \"20260101\"}"

ZeroDurationLine ==
    "{\"id\": \"i\", \"title\": \"Ti\", \"duration\": 0, \"view_count\": 2000000, \"upload_date\": \"20260101\"}"

BareLine ==
    "{\"duration\": 900}"

GarbageLine ==
    "WARNING: unable to extract"

BlankLine ==
    ""

ListLine ==
    "[1]"

TextDurationLine ==
    "{\"id\": \"j\", \"title\": \"Tj\", \"duration\": \"600\", \"view_count\": 10}"

NullViewsLine ==
    "{\"id\": \"k\", \"title\": \"Tk\", \"duration\": 600, \"view_count\": null, \"upload_date\": \"20240101\"}"

NullDateLine ==
    "{\"id\": \"l\", \"title\": \"Tl\", \"duration\": 600, \"view_count\": 10, \"upload_date\": null}"

\* json.loads on a line of the output.
line_json_loads(line) ==
    CASE line = TenMinuteLine ->
            Returned([dict |-> [id |-> [str |-> "a"], title |-> [str |-> "Ta"], duration |-> [int |-> 600], view_count |-> [int |-> 50000], upload_date |-> [str |-> "20240101"]]])
      [] line = TiedLine ->
            Returned([dict |-> [id |-> [str |-> "b"], title |-> [str |-> "Tb"], duration |-> [int |-> 660], view_count |-> [int |-> 50000], upload_date |-> [str |-> "20240101"]]])
      [] line = FiveMinuteLine ->
            Returned([dict |-> [id |-> [str |-> "c"], title |-> [str |-> "Tc"], duration |-> [int |-> 300], view_count |-> [int |-> 100000], upload_date |-> [str |-> "20250101"], like_count |-> [int |-> 5]]])
      [] line = FortyFiveMinuteLine ->
            Returned([dict |-> [id |-> [str |-> "d"], title |-> [str |-> "Td"], duration |-> [int |-> 2700], view_count |-> [int |-> 100000], upload_date |-> [str |-> "20240101"]]])
      [] line = TooShortLine ->
            Returned([dict |-> [id |-> [str |-> "e"], title |-> [str |-> "Te"], duration |-> [int |-> 299], view_count |-> [int |-> 2000000], upload_date |-> [str |-> "20260101"], like_count |-> [int |-> 9]]])
      [] line = TooLongLine ->
            Returned([dict |-> [id |-> [str |-> "f"], title |-> [str |-> "Tf"], duration |-> [int |-> 2701], view_count |-> [int |-> 2000000], upload_date |-> [str |-> "20260101"], like_count |-> [int |-> 9]]])
      [] line = NoDurationLine ->
            Returned([dict |-> [id |-> [str |-> "g"], title |-> [str |-> "Tg"], view_count |-> [int |-> 2000000], upload_date |-> [str |-> "20260101"]]])
      [] line = NullDurationLine ->
            Returned([dict |-> [id |-> [str |-> "h"], title |-> [str |-> "Th"], duration |-> [null |-> TRUE], view_count |-> [int |-> 2000000], upload_date |-> [str |-> "20260101"]]])
      [] line = ZeroDurationLine ->
            Returned([dict |-> [id |-> [str |-> "i"], title |-> [str |-> "Ti"], duration |-> [int |-> 0], view_count |-> [int |-> 2000000], upload_date |-> [str |-> "20260101"]]])
      [] line = BareLine ->
            Returned([dict |-> [duration |-> [int |-> 900]]])
      [] line = ListLine ->
            Returned([list |-> <<[int |-> 1]>>])
      [] line = TextDurationLine ->
            Returned([dict |-> [id |-> [str |-> "j"], title |-> [str |-> "Tj"], duration |-> [str |-> "600"], view_count |-> [int |-> 10]]])
      [] line = NullViewsLine ->
            Returned([dict |-> [id |-> [str |-> "k"], title |-> [str |-> "Tk"], duration |-> [int |-> 600], view_count |-> [null |-> TRUE], upload_date |-> [str |-> "20240101"]]])
      [] line = NullDateLine ->
            Returned([dict |-> [id |-> [str |-> "l"], title |-> [str |-> "Tl"], duration |-> [int |-> 600], view_count |-> [int |-> 10], upload_date |-> [null |-> TRUE]]])
      [] OTHER -> Raised("JSONDecodeError")

(***************************************************************************)
(* youtube_searcher.py: _parse_search_results and search.  The output of   *)
(* yt-dlp is the sequence of the lines json_output.strip().split("\n")     *)
(* yields.  The fields of a candidate stay the tagged JSON values until    *)
(* the record is scored.                                                   *)
(***************************************************************************)
\* Lines 144-153: the record built from a candidate.
SearchVideo(data) ==
    [video_id |-> JsonGet(data, "id", [str |-> ""]),
     title |-> JsonGet(data, "title", [str |-> "Unknown"]),
     duration_seconds |-> JsonGet(data, "duration", JsonNull),
     view_count |-> JsonGet(data, "view_count", [int |-> 0]),
     upload_date |-> JsonGet(data, "upload_date", [str |-> ""]),
     like_count |-> JsonGet(data, "like_count", JsonNull)]

\* Lines 127-161: the loop over the lines.  JSONDecodeError is caught and the
\* line skipped; .get on a value that is no dict (AttributeError) and the
\* comparison of a duration that is no number (TypeError) leave the function.
RECURSIVE ParseLines(_, _, _, _)
ParseLines(lines, min_seconds, max_seconds, videos) ==
    IF lines = <<>> THEN Returned(videos)
    ELSE LET line == Head(lines)
             rest == Tail(lines)
             loaded == line_json_loads(line)
             duration == JsonGet(loaded.value, "duration", JsonNull)
         IN  IF line = "" THEN ParseLines(rest, min_seconds, max_seconds, videos)
             ELSE IF loaded.raised # "none"
             THEN ParseLines(rest, min_seconds, max_seconds, videos)
             ELSE IF ~IsDict(loaded.value) THEN Raised("AttributeError")
             ELSE IF ~Truthy(duration)
             THEN ParseLines(rest, min_seconds, max_seconds, videos)
             ELSE IF ~IsInt(duration) THEN Raised("TypeError")
             ELSE IF duration.int < min_seconds \/ duration.int > max_seconds
             THEN ParseLines(rest, min_seconds, max_seconds, videos)
             ELSE ParseLines(rest, min_seconds, max_seconds,
                             Append(videos, SearchVideo(loaded.value)))

\* A filter that compares the seconds of a candidate with the minimum in
\* minutes.
parse_minimum_in_minutes(lines, min_duration, max_duration) ==
    ParseLines(lines, min_duration, max_duration * 60, <<>>)

\* _parse_search_results
parse_search_results(lines, min_duration, max_duration) ==
    ParseLines(lines, min_duration * 60, max_duration * 60, <<>>)

\* quality_score raises TypeError on a view count or an upload date that is
\* null: None / 100_000 and None[:4].
ScoreRaises(video) == ~IsInt(video.view_count) \/ ~IsStr(video.upload_date)

\* The record as the rest of the pipeline sees it, line 87 applied.
ScoredVideo(video, duration_preference) ==
    YouTubeVideo(video.video_id.str, video.title.str, video.duration_seconds.int,
                 video.view_count.int, video.upload_date.str,
                 IF IsInt(video.like_count) THEN Some(video.like_count.int) ELSE None,
                 duration_preference)

\* A ranking by the scores the records had before the preference of the
\* caller was attached.
rank_without_preference(videos, duration_preference, max_results) ==
    LET scored == [i \in 1..Len(videos) |-> ScoredVideo(videos[i], duration_preference)]
        ranked == SortDesc(scored,
                      [i \in 1..Len(videos) |-> quality_score(ScoredVideo(videos[i], None))])
    IN  Take(ranked, max_results)

\* Lines 86-93: the preference is attached, the list sorted by quality_score
\* in descending order and cut to max_results.
rank_videos(videos, duration_preference, max_results) ==
    LET scored == [i \in 1..Len(videos) |-> ScoredVideo(videos[i], duration_preference)]
        ranked == SortDesc(scored, [i \in 1..Len(scored) |-> quality_score(scored[i])])
    IN  Take(ranked, max_results)

MaxLines == 3

FilterLines ==
    {TenMinuteLine, FiveMinuteLine, FortyFiveMinuteLine, TooShortLine, TooLongLine}

UnusableLines ==
    {TenMinuteLine, NoDurationLine, NullDurationLine, ZeroDurationLine, GarbageLine,
     BlankLine, BareLine}

RaisingLines == {TenMinuteLine, ListLine, TextDurationLine, NullViewsLine, NullDateLine}

RankingLines == {TenMinuteLine, TiedLine, FiveMinuteLine, FortyFiveMinuteLine}

SearchOutputs ==
    UNION {SeqsUpTo(F, MaxLines) :
              F \in {FilterLines, UnusableLines, RaisingLines, RankingLines}}

\* max_results is documented as 5 to 20; the model keeps it positive.
SearchInputs ==
    {[min_duration |-> d[1], max_duration |-> d[2], duration_preference |-> pref,
      max_results |-> n] :
        d \in {<<5, 45>>, <<10, 11>>}, pref \in {None, Some(45)}, n \in {1, 2}}

SeFrame == UNCHANGED <<bp_vars, an_vars, syn_vars, gen_vars, qs_vars, qe_vars, pl_vars, tr_vars, va_vars>>

SeInit ==
    /\ se_input \in {Some(i) : i \in SearchInputs}
    /\ se_pc = "call"
    /\ se_calls = 0
    /\ se_stdout = None
    /\ se_result = None
    /\ se_raised = "none"
    /\ se_cause = "none"

\* A search that answers an exception with an empty list.
ReturnEmptyOnError(cause) ==
    /\ se_raised' = "none"
    /\ se_cause' = cause
    /\ se_pc' = "returned"
    /\ se_result' = Some(<<>>)

\* Lines 98-103: every exception of the try block leaves search as a
\* YouTubeSearchError.
RaiseSearchError(cause) ==
    /\ se_raised' = "YouTubeSearchError"
    /\ se_cause' = cause
    /\ se_pc' = "raised"
    /\ UNCHANGED se_result

\* Line 67: subprocess.run raises TimeoutExpired, CalledProcessError (check)
\* or another exception (yt-dlp is not installed).
SearchCallRaises ==
    /\ SeFrame
    /\ se_pc = "call"
    /\ se_calls' = se_calls + 1
    /\ \E cause \in {"TimeoutExpired", "CalledProcessError", "FileNotFoundError"} :
          RaiseSearchError(cause)
    /\ UNCHANGED <<se_input, se_stdout>>

\* Line 67: subprocess.run returns the output of yt-dlp.
SearchCallReturns ==
    /\ SeFrame
    /\ se_pc = "call"
    /\ se_calls' = se_calls + 1
    /\ \E lines \in SearchOutputs : se_stdout' = Some(lines)
    /\ se_pc' = "parse"
    /\ UNCHANGED <<se_input, se_result, se_raised, se_cause>>

\* The candidates _parse_search_results keeps for the call in hand.
SearchParsed ==
    parse_search_results(se_stdout[1], se_input[1].min_duration, se_input[1].max_duration)

\* Line 76: _parse_search_results raises.
SearchParseRaises ==
    /\ SeFrame
    /\ se_pc = "parse"
    /\ SearchParsed.raised # "none"
    /\ RaiseSearchError(SearchParsed.raised)
    /\ UNCHANGED <<se_input, se_calls, se_stdout>>

\* Lines 82-83: no candidate is left.
SearchNoVideos ==
    /\ SeFrame
    /\ se_pc = "parse"
    /\ SearchParsed.raised = "none"
    /\ SearchParsed.value = <<>>
    /\ RaiseSearchError("YouTubeSearchError")
    /\ UNCHANGED <<se_input, se_calls, se_stdout>>

\* Line 90: the key function of the sort raises.
SearchScoreRaises ==
    /\ SeFrame
    /\ se_pc = "parse"
    /\ SearchParsed.raised = "none"
    /\ \E i \in 1..Len(SearchParsed.value) : ScoreRaises(SearchParsed.value[i])
    /\ RaiseSearchError("TypeError")
    /\ UNCHANGED <<se_input, se_calls, se_stdout>>

\* Lines 86-96: the ranked videos are returned.
SearchReturns ==
    /\ SeFrame
    /\ se_pc = "parse"
    /\ SearchParsed.raised = "none"
    /\ SearchParsed.value # <<>>
    /\ \A i \in 1..Len(SearchParsed.value) : ~ScoreRaises(SearchParsed.value[i])
    /\ se_result' = Some(rank_videos(SearchParsed.value, se_input[1].duration_preference,
                                     se_input[1].max_results))
    /\ se_pc' = "returned"
    /\ UNCHANGED <<se_input, se_calls, se_stdout, se_raised, se_cause>>

SeNext ==
    \/ SearchCallRaises
    \/ SearchCallReturns
    \/ SearchParseRaises
    \/ SearchNoVideos
    \/ SearchScoreRaises
    \/ SearchReturns

InitSearch == SeInit /\ BpIdle /\ AnIdle /\ SynIdle /\ GenIdle /\ QsIdle /\ QeIdle /\ PlIdle /\ TrIdle /\ VaIdle

SpecSearch == InitSearch /\ [][SeNext]_vars

(***************************************************************************)
(* Properties of search.                                                   *)
(***************************************************************************)
SeFinished == se_pc \in {"raised", "returned"}

\* The line is a JSON object whose duration is a number other than 0.
UsableDuration(line) ==
    /\ line_json_loads(line).raised = "none"
    /\ IsDict(line_json_loads(line).value)
    /\ "duration" \in DOMAIN line_json_loads(line).value.dict
    /\ IsInt(line_json_loads(line).value.dict.duration)
    /\ line_json_loads(line).value.dict.duration.int # 0

\* ... and the duration is within the bounds of the call, in minutes.
InRange(line) ==
    /\ UsableDuration(line)
    /\ se_input[1].min_duration * 60 <= line_json_loads(line).value.dict.duration.int
    /\ line_json_loads(line).value.dict.duration.int <= se_input[1].max_duration * 60

\* The lines of the output in hand whose candidate survives the filter.
SurvivingLines == SelectSeq(se_stdout[1], InRange)

\* The surviving candidates, in discovery order, with the preference of the
\* caller attached.
Survivors ==
    [i \in 1..Len(SurvivingLines) |->
        ScoredVideo(SearchVideo(line_json_loads(SurvivingLines[i]).value),
                    se_input[1].duration_preference)]

\* C14: every video search returns has min_duration <= duration_minutes <=
\* max_duration, bounds included, and comes from a line of the output with a
\* usable duration field.
C14_ReturnedWithinDuration ==
    se_result # None =>
        \A i \in 1..Len(se_result[1]) :
            /\ se_input[1].min_duration * 60 <= se_result[1][i].duration_seconds
            /\ se_result[1][i].duration_seconds <= se_input[1].max_duration * 60
            /\ \E k \in 1..Len(se_stdout[1]) :
                  /\ UsableDuration(se_stdout[1][k])
                  /\ se_result[1][i] =
                        ScoredVideo(SearchVideo(line_json_loads(se_stdout[1][k]).value),
                                    se_input[1].duration_preference)

\* Both bounds are met by returned videos while a shorter candidate of the
\* output is left out.
C14_Witness ==
    /\ se_result # None
    /\ \E i \in 1..Len(se_result[1]) : se_result[1][i].duration_seconds = 300
    /\ \E i \in 1..Len(se_result[1]) : se_result[1][i].duration_seconds = 2700
    /\ \E k \in 1..Len(se_stdout[1]) : se_stdout[1][k] = TooShortLine

\* The place of survivor i in the ranking: after every survivor with a
\* higher score and every earlier survivor with the same score.
SearchRank(videos, i) ==
    1 + Cardinality({j \in 1..Len(videos) :
            \/ quality_score(videos[j]) > quality_score(videos[i])
            \/ quality_score(videos[j]) = quality_score(videos[i]) /\ j < i})

\* C15: search returns at most max_results videos: the surviving candidates
\* with the highest quality_score, computed with the preference of the
\* caller attached, in descending order of quality_score, candidates of
\* equal score in their discovery order.
C15_TopRankedReturned ==
    se_result # None =>
        /\ Len(se_result[1]) = Min(se_input[1].max_results, Len(Survivors))
        /\ \A i \in 1..Len(Survivors) :
              SearchRank(Survivors, i) <= se_input[1].max_results =>
                  se_result[1][SearchRank(Survivors, i)] = Survivors[i]
        /\ \A k \in 1..(Len(se_result[1]) - 1) :
              quality_score(se_result[1][k]) >= quality_score(se_result[1][k + 1])
        /\ \A k \in 1..Len(se_result[1]) :
              se_result[1][k].duration_preference = se_input[1].duration_preference

\* Three survivors cut to two; the preference of 45 minutes puts the long
\* video before the short one that was discovered first.
C15_Witness ==
    /\ se_result # None
    /\ se_stdout[1] = <<FiveMinuteLine, TenMinuteLine, FortyFiveMinuteLine>>
    /\ se_input[1].duration_preference = Some(45)
    /\ Len(se_result[1]) = 2
    /\ se_result[1][1].video_id = "d"
    /\ se_result[1][2].video_id = "c"

\* Two survivors of equal score are returned in their discovery order.
C15_WitnessTie ==
    /\ se_result # None
    /\ se_stdout[1] = <<TiedLine, TenMinuteLine>>
    /\ Len(se_result[1]) = 2
    /\ quality_score(se_result[1][1]) = quality_score(se_result[1][2])
    /\ se_result[1][1].video_id = "b"

\* C16: search fails with YouTubeSearchError, and with no other exception,
\* whenever no candidate survives the filter or the search call fails or
\* times out; it never returns an empty list, and it runs the search command
\* exactly once per call.
C16_OnlySearchErrorNeverEmpty ==
    /\ se_raised \in {"none", "YouTubeSearchError"}
    /\ se_calls <= 1
    /\ SeFinished =>
          /\ se_calls = 1
          /\ se_pc = "raised" <=> se_raised = "YouTubeSearchError"
          /\ se_pc = "returned" => se_result # None /\ se_result[1] # <<>>
          /\ se_pc = "raised" => se_result = None
          /\ se_stdout = None => se_pc = "raised"
          /\ (se_stdout # None /\ SurvivingLines = <<>>) => se_pc = "raised"

\* The call returned candidates, none survived, and search raised.
C16_Witness ==
    /\ se_pc = "raised"
    /\ se_raised = "YouTubeSearchError"
    /\ se_cause = "YouTubeSearchError"
    /\ se_stdout # None
    /\ Len(se_stdout[1]) = 3
    /\ se_calls = 1

\* The search call timed out.
C16_WitnessTimeout ==
    /\ se_pc = "raised"
    /\ se_cause = "TimeoutExpired"
    /\ se_raised = "YouTubeSearchError"

(***************************************************************************)
(* script_generator.py: _estimate_quality_score applied to a script text,  *)
(* a word count, a title and a tag list chosen apart from one another.     *)
(***************************************************************************)
MaxSections == 8
MaxTags == 15

\* n copies of one piece of text.
RECURSIVE Repeat(_, _)
Repeat(piece, n) == IF n <= 0 THEN "" ELSE piece \o Repeat(piece, n - 1)

\* A script text with the given opening timestamp and n section headings.
ScriptWith(stamp, n) ==
    "# Title\n" \o stamp \o " Opening words\n" \o Repeat("## Section\nSome content.\n", n)

EstimateInputs ==
    [stamp : {"", "[00:00]", "[0:00]", "[00:15]"},
     sections : 0..MaxSections,
     word_count : {0, 299, 300, 499, 500, 2000, 2001, 3000, 3001},
     title_len : {0, 19, 20},
     tags : {0, 9, 10, 14, MaxTags}]

QeFrame == UNCHANGED <<bp_vars, an_vars, syn_vars, gen_vars, qs_vars, se_vars, pl_vars, tr_vars, va_vars>>

QeInit ==
    /\ qe_input \in {Some(i) : i \in EstimateInputs}
    /\ qe_score = None

\* Line 261: the estimate of the script in hand.
EstimateQualityScore ==
    /\ QeFrame
    /\ qe_score = None
    /\ qe_score' = Some(estimate_quality_score(
                            ScriptWith(qe_input[1].stamp, qe_input[1].sections),
                            qe_input[1].word_count,
                            Repeat("t", qe_input[1].title_len),
                            [k \in 1..qe_input[1].tags |-> "tag"]))
    /\ UNCHANGED qe_input

QeNext ==
    \/ EstimateQualityScore

InitEstimate == QeInit /\ BpIdle /\ AnIdle /\ SynIdle /\ GenIdle /\ QsIdle /\ SeIdle /\ PlIdle /\ TrIdle /\ VaIdle

SpecEstimate == InitEstimate /\ [][QeNext]_vars

(***************************************************************************)
(* Properties of _estimate_quality_score.                                  *)
(***************************************************************************)
\* The points of the length band of a word count.
LengthPoints(w) ==
    IF w \in 500..2000 THEN 20
    ELSE IF w \in 300..499 \/ w \in 2001..3000 THEN 10
    ELSE 0

\* 5 points when the condition holds.
Five(condition) == IF condition THEN 5 ELSE 0

\* C17: the quality estimate is 50, plus 20 for a word count in [500, 2000]
\* or 10 for one in [300, 500) or (2000, 3000], plus 5 for a start timestamp,
\* plus 5 for a section marker, plus 5 for a section count in [3, 7], plus 5
\* for an SEO title of length >= 20, plus 5 for 10 tags or more, plus 5 for
\* 15 tags or more, clamped to [1, 100]; so every estimate is within
\* [1, 100].
C17_QualityEstimateFormula ==
    qe_score # None =>
        LET i == qe_input[1]
            total == 50 + LengthPoints(i.word_count)
                     + Five(i.stamp \in {"[00:00]", "[0:00]"})
                     + Five(i.sections >= 1)
                     + Five(i.sections \in 3..7)
                     + Five(i.title_len >= 20)
                     + Five(i.tags >= 10)
                     + Five(i.tags >= 15)
        IN  /\ qe_score[1] = (IF total > 100 THEN 100 ELSE IF total < 1 THEN 1 ELSE total)
            /\ qe_score[1] \in 1..100

\* Every bonus at once gives 100; the bare minimum gives 50.
C17_Witness ==
    /\ qe_score = Some(100)
    /\ qe_input[1].word_count = 2000
    /\ qe_input[1].sections = 7
    /\ qe_input[1].tags = 15

C17_WitnessBase ==
    /\ qe_score = Some(50)
    /\ qe_input[1].word_count = 3001
    /\ qe_input[1].stamp = "[00:15]"

(***************************************************************************)
(* cli.py: command_generate_script (the command line) and                  *)
(* run_generate_script_command (the web interface): one run of the         *)
(* pipeline.  A stage is one call; the trace records each call with its    *)
(* outcome, "returned" or the name of the error it raised.                 *)
(***************************************************************************)
MaxFound == 2

PipelineInputs ==
    [entry : {"command_generate_script", "run_generate_script_command"},
     idea : {"", "Install n8n"}]

PlFrame == UNCHANGED <<bp_vars, an_vars, syn_vars, gen_vars, qs_vars, se_vars, qe_vars, tr_vars, va_vars>>

PlInit ==
    /\ pl_input \in {Some(i) : i \in PipelineInputs}
    /\ pl_pc = "optimize"
    /\ pl_trace = <<>>
    /\ pl_videos = 0
    /\ pl_transcripts = 0
    /\ pl_todo = 0
    /\ pl_files = <<>>
    /\ pl_result = None

\* A handler that goes back to the stage that raised, to call it again.
RetryAfterError(stage) == stage

\* The handler of the run's except clause leaves the stage for good.
AfterError(stage) == "failed"

\* command_generate_script exits with status 1 (lines 343-346);
\* run_generate_script_command returns (None, None) (lines 501-503).
FailureResult ==
    IF pl_input[1].entry = "command_generate_script" THEN Some("exit 1")
    ELSE Some("(None, None)")

\* A stage returned: the statement after its call is next.
StageReturns(stage, next) ==
    /\ pl_trace' = Append(pl_trace, [stage |-> stage, outcome |-> "returned"])
    /\ pl_pc' = next
    /\ UNCHANGED <<pl_input, pl_files, pl_result>>

\* A stage raised: the except clause of the run takes over.
StageRaises(stage, error) ==
    /\ pl_trace' = Append(pl_trace, [stage |-> stage, outcome |-> error])
    /\ pl_pc' = AfterError(pl_pc)
    /\ pl_result' = (IF AfterError(pl_pc) = "failed" THEN FailureResult ELSE pl_result)
    /\ UNCHANGED <<pl_input, pl_files, pl_videos, pl_transcripts, pl_todo>>

\* Phase 1: QueryOptimizer.optimize falls back on any failure.
RunOptimize ==
    /\ PlFrame
    /\ pl_pc = "optimize"
    /\ StageReturns("optimizer", "search")
    /\ UNCHANGED <<pl_videos, pl_transcripts, pl_todo>>

\* Phase 2: YouTubeSearcher.search returns at least one video.
RunSearchReturns ==
    /\ PlFrame
    /\ pl_pc = "search"
    /\ \E n \in 1..MaxFound : pl_videos' = n
    /\ StageReturns("searcher", "process")
    /\ UNCHANGED <<pl_transcripts, pl_todo>>

RunSearchRaises ==
    /\ PlFrame
    /\ pl_pc = "search"
    /\ StageRaises("searcher", "YouTubeSearchError")

\* Phase 3: BatchProcessor.process_videos returns at least one transcript.
RunProcessReturns ==
    /\ PlFrame
    /\ pl_pc = "process"
    /\ \E k \in 1..pl_videos : pl_transcripts' = k /\ pl_todo' = k
    /\ StageReturns("batch_processor", "analyze")
    /\ UNCHANGED pl_videos

RunProcessRaises ==
    /\ PlFrame
    /\ pl_pc = "process"
    /\ StageRaises("batch_processor", "BatchProcessingError")

\* Phase 4: [analyzer.analyze(t) for t in transcripts], one transcript.
RunAnalyzeReturns ==
    /\ PlFrame
    /\ pl_pc = "analyze"
    /\ pl_todo > 0
    /\ pl_todo' = pl_todo - 1
    /\ StageReturns("analyzer", IF pl_todo = 1 THEN "synthesize" ELSE "analyze")
    /\ UNCHANGED <<pl_videos, pl_transcripts>>

RunAnalyzeRaises ==
    /\ PlFrame
    /\ pl_pc = "analyze"
    /\ pl_todo > 0
    /\ StageRaises("analyzer", "AttributeError")

\* Phase 5: PatternSynthesizer.synthesize.
RunSynthesizeReturns ==
    /\ PlFrame
    /\ pl_pc = "synthesize"
    /\ StageReturns("synthesizer", "generate")
    /\ UNCHANGED <<pl_videos, pl_transcripts, pl_todo>>

RunSynthesizeRaises ==
    /\ PlFrame
    /\ pl_pc = "synthesize"
    /\ \E error \in (IF pl_transcripts = 0 THEN {"ValueError"} ELSE {}) \cup {"TypeError"} :
           StageRaises("synthesizer", error)

\* Phase 6: ScriptGenerator.generate; a blank idea raises ValueError.
RunGenerateReturns ==
    /\ PlFrame
    /\ pl_pc = "generate"
    /\ Strip(pl_input[1].idea) # ""
    /\ StageReturns("generator", "translate")
    /\ UNCHANGED <<pl_videos, pl_transcripts, pl_todo>>

RunGenerateRaises ==
    /\ PlFrame
    /\ pl_pc = "generate"
    /\ \E error \in (IF Strip(pl_input[1].idea) = "" THEN {"ValueError"} ELSE {"TypeError"}) :
           StageRaises("generator", error)

\* Phase 7: ScriptTranslator.translate_to_spanish.
RunTranslateReturns ==
    /\ PlFrame
    /\ pl_pc = "translate"
    /\ StageReturns("translator", "save")
    /\ UNCHANGED <<pl_videos, pl_transcripts, pl_todo>>

RunTranslateRaises ==
    /\ PlFrame
    /\ pl_pc = "translate"
    /\ StageRaises("translator", "TranslationError")

\* The output files in the order of their write_text calls.
OutputFiles == <<"_EN.md", "_ES.md", "_synthesis.md">>

\* Save outputs: the next write_text call succeeds.
RunSaveWrites ==
    /\ PlFrame
    /\ pl_pc = "save"
    /\ Len(pl_files) < Len(OutputFiles)
    /\ pl_files' = Append(pl_files, OutputFiles[Len(pl_files) + 1])
    /\ UNCHANGED <<pl_input, pl_pc, pl_trace, pl_videos, pl_transcripts, pl_todo, pl_result>>

\* Save outputs: a mkdir or write_text call raises OSError.
RunSaveRaises ==
    /\ PlFrame
    /\ pl_pc = "save"
    /\ Len(pl_files) < Len(OutputFiles)
    /\ pl_pc' = "failed"
    /\ pl_result' = FailureResult
    /\ UNCHANGED <<pl_input, pl_trace, pl_videos, pl_transcripts, pl_todo, pl_files>>

\* The run ends: the summary is printed, or the two script paths returned.
RunCompletes ==
    /\ PlFrame
    /\ pl_pc = "save"
    /\ Len(pl_files) = Len(OutputFiles)
    /\ pl_pc' = "done"
    /\ pl_result' = (IF pl_input[1].entry = "command_generate_script" THEN Some("summary")
                     ELSE Some("(_EN.md, _ES.md)"))
    /\ UNCHANGED <<pl_input, pl_trace, pl_videos, pl_transcripts, pl_todo, pl_files>>

PlNext ==
    \/ RunOptimize
    \/ RunSearchReturns
    \/ RunSearchRaises
    \/ RunProcessReturns
    \/ RunProcessRaises
    \/ RunAnalyzeReturns
    \/ RunAnalyzeRaises
    \/ RunSynthesizeReturns
    \/ RunSynthesizeRaises
    \/ RunGenerateReturns
    \/ RunGenerateRaises
    \/ RunTranslateReturns
    \/ RunTranslateRaises
    \/ RunSaveWrites
    \/ RunSaveRaises
    \/ RunCompletes

InitPipeline == PlInit /\ BpIdle /\ AnIdle /\ SynIdle /\ GenIdle /\ QsIdle /\ SeIdle /\ QeIdle /\ TrIdle /\ VaIdle

SpecPipeline == InitPipeline /\ [][PlNext]_vars

(***************************************************************************)
(* Properties of the pipeline run.                                         *)
(***************************************************************************)
\* The calls of the six stages, in the order they were made.
StageCalls == SelectSeq(pl_trace, LAMBDA e : e.stage # "optimizer")

\* The order of a whole run over the transcripts in hand.
StageOrder ==
    <<"searcher", "batch_processor">> \o [i \in 1..pl_transcripts |-> "analyzer"]
        \o <<"synthesizer", "generator", "translator">>

\* The errors the stages raise on purpose.
TypedErrors == {"YouTubeSearchError", "BatchProcessingError", "ValueError", "TranslationError"}

\* C18: the stages of a run are called in the order searcher, batch
\* processor, analyzer once per transcript, synthesizer, generator,
\* translator, each after the previous call returned; once a stage raised
\* an error no further stage is called, no stage is called again, and no
\* output file is written.
C18_StagesInOrderErrorsTerminal ==
    /\ Len(StageCalls) <= Len(StageOrder)
    /\ \A i \in 1..Len(StageCalls) :
           /\ StageCalls[i].stage = StageOrder[i]
           /\ i < Len(StageCalls) => StageCalls[i].outcome = "returned"
    /\ pl_transcripts = 0 => Len(StageCalls) <= 2
    /\ \A i \in 1..Len(StageCalls) :
           StageCalls[i].outcome # "returned" =>
               /\ pl_pc = "failed"
               /\ pl_files = <<>>
               /\ pl_result \in {Some("exit 1"), Some("(None, None)")}
    /\ pl_files # <<>> =>
           /\ Len(StageCalls) = Len(StageOrder)
           /\ \A i \in 1..Len(StageCalls) : StageCalls[i].outcome = "returned"

\* A run that the translator ended with its typed error after two analyses,
\* and a run that wrote its three files.
C18_Witness ==
    /\ pl_pc = "failed"
    /\ pl_transcripts = 2
    /\ Len(StageCalls) = 7
    /\ StageCalls[7].outcome = "TranslationError"
    /\ StageCalls[7].outcome \in TypedErrors

C18_WitnessSaved ==
    /\ pl_pc = "done"
    /\ Len(pl_files) = 3

C18_WitnessBlankIdea ==
    /\ pl_pc = "failed"
    /\ Len(StageCalls) >= 5
    /\ StageCalls[Len(StageCalls)] = [stage |-> "generator", outcome |-> "ValueError"]

(***************************************************************************)
(* translator.py: ScriptTranslator.translate_to_spanish.  Accented letters *)
(* are written without their accent and the warning sign of the failure    *)
(* marker is written "(!)".                                                *)
(***************************************************************************)
TagLimit == 30

FailureMarker == "(!) Translation failed. Original script below:\n\n"

\* A body that could not be translated, passed on without any marker.
content_without_marker(content) == content

\* _translate_content, the except clause: the original under the marker.
content_after_failure(content) == FailureMarker \o content

\* _translate_content on the outcome of its call.
translate_content(outcome, content) ==
    IF outcome.raised # "none" THEN content_after_failure(content)
    ELSE IF Strip(outcome.value) = "" THEN content_after_failure(content)
    ELSE Strip(outcome.value)

IsQuote(c) == c = "\"" \/ c = "'"

\* re.sub(r'^["\'](.*)["\']$', r"\1", s) on a stripped string.
RemoveQuotes(s) ==
    IF /\ Len(s) >= 2
       /\ IsQuote(CharAt(s, 1))
       /\ IsQuote(CharAt(s, Len(s)))
       /\ ~Contains(SubSeq(s, 2, Len(s) - 1), "\n")
    THEN SubSeq(s, 2, Len(s) - 1)
    ELSE s

\* _translate_seo_title on the outcome of its call.
translate_seo_title(outcome, title) ==
    IF outcome.raised # "none" THEN title
    ELSE LET translated == RemoveQuotes(Strip(outcome.value))
         IN  IF translated # "" THEN translated ELSE title

\* _translate_seo_description on the outcome of its call.
translate_seo_description(outcome, description) ==
    IF outcome.raised # "none" THEN description
    ELSE IF Strip(outcome.value) # "" THEN Strip(outcome.value) ELSE description

\* _adapt_seo_tags: the translations of the generic terms.
TagTranslations ==
    [k \in {"tutorial", "guide", "beginner", "beginners", "installation", "setup",
            "how to", "step by step", "quick start", "getting started", "automation",
            "workflow", "free", "local", "self-hosted"} |->
        CASE k = "tutorial" -> "tutorial"
          [] k = "guide" -> "guia"
          [] k = "beginner" -> "principiante"
          [] k = "beginners" -> "principiantes"
          [] k = "installation" -> "instalacion"
          [] k = "setup" -> "configuracion"
          [] k = "how to" -> "como"
          [] k = "step by step" -> "paso a paso"
          [] k = "quick start" -> "inicio rapido"
          [] k = "getting started" -> "primeros pasos"
          [] k = "automation" -> "automatizacion"
          [] k = "workflow" -> "flujo de trabajo"
          [] k = "free" -> "gratis"
          [] k = "local" -> "local"
          [] k = "self-hosted" -> "auto-alojado"]

\* x in list
InList(x, list) == \E i \in 1..Len(list) : list[i] = x

\* The loop of _adapt_seo_tags from tag i on.
RECURSIVE AdaptFrom(_, _, _)
AdaptFrom(tags, i, adapted_tags) ==
    IF i > Len(tags) THEN adapted_tags
    ELSE LET tag_lower == Lower(tags[i])
         IN  IF tag_lower \in DOMAIN TagTranslations
                /\ ~InList(TagTranslations[tag_lower], adapted_tags)
             THEN AdaptFrom(tags, i + 1, Append(adapted_tags, TagTranslations[tag_lower]))
             ELSE AdaptFrom(tags, i + 1, adapted_tags)

\* _adapt_seo_tags: the list the appends went to, and the list returned.
adapt_seo_tags(tags) ==
    LET adapted_tags == AdaptFrom(tags, 1, tags)
    IN  [adapted |-> adapted_tags, returned |-> Take(adapted_tags, TagLimit)]

TranslatorSynthesis == [topic |-> "n8n", num_videos_analyzed |-> 2]

TranslatorTags ==
    {<<>>,
     <<"n8n", "Guide", "tutorial", "SETUP">>,
     <<"guide", "guia", "free", "local">>,
     [i \in 1..(TagLimit - 1) |-> IF i = 1 THEN "how to" ELSE IF i = 2 THEN "workflow" ELSE "n8n"]}

TranslatorInputs ==
    {GeneratedScript("Install n8n", "# Install n8n\n## Intro\nWelcome back.", 1, 6,
                     title, "Learn to install n8n.", tags, TranslatorSynthesis, 60) :
        title \in {"Install n8n in 5 minutes"}, tags \in TranslatorTags}

\* What a call of the model gives: a text, or an error.
BodyOutcomes ==
    {Raised("ResourceExhausted"), Returned(""), Returned("  \n"),
     Returned(" # Instalar n8n\n## Intro\nBienvenido de nuevo.\n")}

TitleOutcomes ==
    {Raised("ResourceExhausted"), Returned(""), Returned(" \"\" "), Returned("'"),
     Returned("\"Instala n8n en 5 minutos\""), Returned("Instala n8n en 5 minutos\n")}

DescriptionOutcomes ==
    {Raised("ResourceExhausted"), Returned(" "), Returned("Aprende a instalar n8n. ")}

TrFrame == UNCHANGED <<bp_vars, an_vars, syn_vars, gen_vars, qs_vars, se_vars, qe_vars, pl_vars, va_vars>>

TrInit ==
    /\ tr_input \in {Some(i) : i \in TranslatorInputs}
    /\ tr_script = tr_input
    /\ tr_pc = "content"
    /\ tr_calls = <<>>
    /\ tr_content = None
    /\ tr_title = None
    /\ tr_description = None
    /\ tr_tags = None
    /\ tr_result = None

\* Lines 45-48: the body.
TranslateContent ==
    /\ TrFrame
    /\ tr_pc = "content"
    /\ \E outcome \in BodyOutcomes :
           /\ tr_calls' = Append(tr_calls, [call |-> "content", outcome |-> outcome])
           /\ tr_content' = Some(translate_content(outcome, tr_script[1].script_markdown))
    /\ tr_pc' = "title"
    /\ UNCHANGED <<tr_input, tr_script, tr_title, tr_description, tr_tags, tr_result>>

\* Line 51: the title.
TranslateSeoTitle ==
    /\ TrFrame
    /\ tr_pc = "title"
    /\ \E outcome \in TitleOutcomes :
           /\ tr_calls' = Append(tr_calls, [call |-> "title", outcome |-> outcome])
           /\ tr_title' = Some(translate_seo_title(outcome, tr_script[1].seo_title))
    /\ tr_pc' = "description"
    /\ UNCHANGED <<tr_input, tr_script, tr_content, tr_description, tr_tags, tr_result>>

\* Line 52: the description.
TranslateSeoDescription ==
    /\ TrFrame
    /\ tr_pc = "description"
    /\ \E outcome \in DescriptionOutcomes :
           /\ tr_calls' = Append(tr_calls, [call |-> "description", outcome |-> outcome])
           /\ tr_description' = Some(translate_seo_description(outcome, tr_script[1].seo_description))
    /\ tr_pc' = "tags"
    /\ UNCHANGED <<tr_input, tr_script, tr_content, tr_title, tr_tags, tr_result>>

\* tags.copy() makes a list of its own: the appends do not reach the
\* list of the script.
CopiedList(list) == "adapted_tags"

\* Line 55: the tags.
AdaptSeoTags ==
    /\ TrFrame
    /\ tr_pc = "tags"
    /\ LET lists == adapt_seo_tags(tr_script[1].seo_tags)
       IN  /\ tr_tags' = Some(lists.returned)
           /\ tr_script' = (IF CopiedList("script.seo_tags") = "script.seo_tags"
                            THEN Some([tr_script[1] EXCEPT !.seo_tags = lists.adapted])
                            ELSE tr_script)
    /\ tr_pc' = "construct"
    /\ UNCHANGED <<tr_input, tr_calls, tr_content, tr_title, tr_description, tr_result>>

\* Lines 58-74: the new record.
TranslateReturns ==
    /\ TrFrame
    /\ tr_pc = "construct"
    /\ tr_result' = Some([user_idea |-> tr_script[1].user_idea,
                          script_markdown |-> tr_content[1],
                          estimated_duration_minutes |-> tr_script[1].estimated_duration_minutes,
                          word_count |-> WordCount(tr_content[1]),
                          seo_title |-> tr_title[1],
                          seo_description |-> tr_description[1],
                          seo_tags |-> tr_tags[1],
                          synthesis_used |-> tr_script[1].synthesis_used,
                          num_reference_videos |-> tr_script[1].num_reference_videos,
                          cost_usd |-> tr_script[1].cost_usd,
                          estimated_quality_score |-> tr_script[1].estimated_quality_score])
    /\ tr_pc' = "returned"
    /\ UNCHANGED <<tr_input, tr_script, tr_calls, tr_content, tr_title, tr_description, tr_tags>>

TrNext ==
    \/ TranslateContent
    \/ TranslateSeoTitle
    \/ TranslateSeoDescription
    \/ AdaptSeoTags
    \/ TranslateReturns

InitTranslate == TrInit /\ BpIdle /\ AnIdle /\ SynIdle /\ GenIdle /\ QsIdle /\ SeIdle /\ QeIdle /\ PlIdle /\ VaIdle

SpecTranslate == InitTranslate /\ [][TrNext]_vars

(***************************************************************************)
(* Properties of translate_to_spanish.                                     *)
(***************************************************************************)
\* The call of the given name failed or gave nothing but blanks.
CallGaveNothing(call) ==
    \E i \in 1..Len(tr_calls) :
        /\ tr_calls[i].call = call
        /\ \/ tr_calls[i].outcome.raised # "none"
           \/ \A k \in 1..Len(tr_calls[i].outcome.value) :
                  CharAt(tr_calls[i].outcome.value, k) \in {" ", "\n"}

\* C19: a failed or empty body translation gives the original content under
\* the failure marker and the translation goes on; a failed title call or a
\* failed description call gives back the original of that field alone,
\* whatever the other calls did; the result is a record of its own and the
\* record passed in, its tag list included, is as it was.
C19_FallbacksKeepInput ==
    /\ tr_script = tr_input
    /\ (tr_content # None /\ CallGaveNothing("content")) =>
           /\ tr_content[1] = FailureMarker \o tr_input[1].script_markdown
           /\ tr_pc # "content"
    /\ (tr_title # None /\ CallGaveNothing("title")) =>
           tr_title[1] = tr_input[1].seo_title
    /\ (tr_description # None /\ CallGaveNothing("description")) =>
           tr_description[1] = tr_input[1].seo_description
    /\ tr_result # None =>
           /\ tr_result[1].script_markdown = tr_content[1]
           /\ tr_result[1].seo_title = tr_title[1]
           /\ tr_result[1].seo_description = tr_description[1]
           /\ tr_result[1].user_idea = tr_input[1].user_idea
           /\ tr_result[1].estimated_quality_score = tr_input[1].estimated_quality_score

\* The body and the description failed and the title was translated; the
\* result carries a Spanish tag the input does not.
C19_Witness ==
    /\ tr_result # None
    /\ CallGaveNothing("content")
    /\ CallGaveNothing("description")
    /\ ~CallGaveNothing("title")
    /\ tr_result[1].seo_title = "Instala n8n en 5 minutos"
    /\ InList("guia", tr_result[1].seo_tags)
    /\ ~InList("guia", tr_input[1].seo_tags)

C19_WitnessTitleFallback ==
    /\ tr_result # None
    /\ CallGaveNothing("title")
    /\ ~CallGaveNothing("content")
    /\ tr_result[1].seo_title = tr_input[1].seo_title
    /\ tr_result[1].script_markdown # tr_input[1].script_markdown

(***************************************************************************)
(* models.py, youtube_searcher.py: one video record and the analysis that  *)
(* owns it, from the search to the generated script, while the clock runs. *)
(***************************************************************************)
OwnedVideos ==
    {YouTubeVideo("vid", "Title", secs, views, date, Some(10), None) :
        secs \in {540, 900},
        views \in {50000, 2000000},
        date \in {"unknown", "20200101", "20240101", "20260101"}}

VaFrame == UNCHANGED <<bp_vars, an_vars, syn_vars, gen_vars, qs_vars, se_vars, qe_vars, pl_vars, tr_vars>>

VaInit ==
    /\ va_video \in {Some(v) : v \in OwnedVideos}
    /\ va_year = CurrentYear
    /\ va_stage = "found"
    /\ va_analysis = None

\* youtube_searcher.py lines 86-90: the preference is attached and the
\* record scored for the ranking.
AttachPreference ==
    /\ VaFrame
    /\ va_stage = "found"
    /\ \E pref \in {None, Some(10), Some(45)} :
           va_video' = Some([va_video[1] EXCEPT !.duration_preference = pref])
    /\ va_stage' = "searched"
    /\ UNCHANGED <<va_year, va_analysis>>

\* models.py lines 128-130: __post_init__ reads video.quality_score once.
ConstructAnalysis ==
    /\ VaFrame
    /\ va_stage = "searched"
    /\ va_analysis' = Some([video |-> va_video[1],
                            effectiveness_score |-> quality_score_at(va_video[1], va_year)])
    /\ va_stage' = "analyzed"
    /\ UNCHANGED <<va_video, va_year>>

\* synthesizer.py: the synthesis reads effectiveness_score and video fields.
SynthesisReads ==
    /\ VaFrame
    /\ va_stage = "analyzed"
    /\ va_stage' = "synthesized"
    /\ UNCHANGED <<va_video, va_year, va_analysis>>

\* script_generator.py: the generation works from the synthesis alone.
GenerationReads ==
    /\ VaFrame
    /\ va_stage = "synthesized"
    /\ va_stage' = "generated"
    /\ UNCHANGED <<va_video, va_year, va_analysis>>

\* The year of datetime.now() changes while the run goes on.
NewYear ==
    /\ VaFrame
    /\ va_stage # "generated"
    /\ va_year < CurrentYear + MaxYearsPassed
    /\ va_year' = va_year + 1
    /\ UNCHANGED <<va_video, va_stage, va_analysis>>

VaNext ==
    \/ AttachPreference
    \/ ConstructAnalysis
    \/ SynthesisReads
    \/ GenerationReads
    \/ NewYear

InitOwned == VaInit /\ BpIdle /\ AnIdle /\ SynIdle /\ GenIdle /\ QsIdle /\ SeIdle /\ QeIdle /\ PlIdle /\ TrIdle

SpecOwned == InitOwned /\ [][VaNext]_vars

(***************************************************************************)
(* Properties of the analysis and the video it owns.                       *)
(***************************************************************************)
\* C20: in every state from its construction on, the effectiveness_score of
\* an analysis equals the quality_score of the video it owns.
C20_EffectivenessEqualsQualityScore ==
    va_analysis # None =>
        va_analysis[1].effectiveness_score = quality_score_at(va_analysis[1].video, va_year)

\* C20, the part that holds: the score is the quality_score of the owned
\* video in some year the run has seen, the owned video is the record the
\* search ranked, and once the analysis exists no step changes it.
C20_ScoreSetOnceVideoKept ==
    /\ va_analysis # None =>
           /\ va_analysis[1].video = va_video[1]
           /\ \E year \in CurrentYear..va_year :
                  va_analysis[1].effectiveness_score = quality_score_at(va_video[1], year)
    /\ va_stage \in {"found", "searched"} <=> va_analysis = None

C20_AnalysisNeverChanges == [][va_analysis # None => va_analysis' = va_analysis]_vars

\* An analysis built in 2026 of a video of 2024, read in 2027.
C20_WitnessNewYear ==
    /\ va_stage = "generated"
    /\ va_year = CurrentYear + 1
    /\ va_analysis[1].video.upload_date = "20240101"
    /\ va_analysis[1].effectiveness_score # quality_score_at(va_analysis[1].video, va_year)

====
